---- MODULE Spec2Model ----
(***************************************************************************)
(* Token aggregation engine (src/src/services/aggregator.ts) with its      *)
(* three source adapters and the process-local cache.                      *)
(*                                                                         *)
(* Numbers: every fiat amount is an integer multiple of SolPrice, so that  *)
(* the native-unit fields (amount / solPrice) are exact.  Percent changes  *)
(* computed by the engine are kept as a numerator/denominator pair and     *)
(* compared by cross-multiplication; for IEEE doubles the comparison       *)
(* ((b - a) / a) * 100 >= 1 (resp. >= 50) agrees with the exact one.       *)
(* Time: the clock `now` counts units of config.cacheTtl seconds.          *)
(* Strings of the token names are tuples of one-character strings.         *)
(***************************************************************************)
EXTENDS Integers, Sequences, FiniteSets, TLC

VARIABLES
    tokensMap,        \* Map<string, Token>, as its insertion-ordered entries
    previousPrices,   \* Map<string, number>
    previousVolumes,  \* Map<string, number>
    handlers,         \* which of onPriceUpdate / onVolumeSpike / onNewToken are set
    emitted,          \* the handler calls made by the latest mergeToken call, in order
    announced,        \* per address, the number of onNewToken calls so far
    heardPrice,       \* per address, the price most recently passed to a handler
    newToken,         \* the argument of the latest mergeToken call
    lastOp,           \* "merge" when the latest step was a mergeToken call
    calls,            \* number of refreshAllData / getTokenByAddress / searchTokens calls so far
    refreshing,       \* a refreshAllData call is in progress
    pending,          \* adapters whose fetch of that call has not settled
    loop,             \* the synchronous merge loop that is executing, if any
    lookups,          \* addresses with a getTokenByAddress fallback fetch in flight
    searching,        \* a searchTokens call is waiting for / merging upstream hits
    cache,            \* MemoryCache.data
    upstream,         \* the payloads the upstream services can answer with
    lastFullRefresh,  \* Date | null
    now,              \* Date.now()
    response,         \* the latest getTokens call: its arguments and what it returned
    down,             \* adapters whose upstream calls fail until their retries are exhausted
    rejected,         \* adapters whose fetch of the latest refreshAllData call rejected
    refreshed,        \* how the latest refreshAllData call ended, "running" until then
    initialized,      \* how far initialize() has come, and how it ended
    stats,            \* what the latest getStats call returned
    session,          \* a client paging through getTokens results by next_cursor
    limiter,          \* RateLimiter: tokens, time since lastRefill, failures
    waiters,          \* per caller of waitForToken: where it is and its timer
    retry,            \* a withRetry call: its loop counter, what fn and onRetry saw
    cacheStats,       \* MemoryCache.hits and MemoryCache.misses
    history,          \* per key the latest set that no delete or flush followed, and the get calls
    sockets,          \* WebSocketServer.clients and what each client was sent
    scheduler         \* UpdateScheduler: isRunning and its jobs

\* the variables of the cache counters, the push channel and the scheduler
periphery == <<cacheStats, history, sockets, scheduler>>

vars == <<tokensMap, previousPrices, previousVolumes, handlers, emitted, announced,
          heardPrice, newToken, lastOp, calls, refreshing, pending, loop, lookups, searching,
          cache, upstream, lastFullRefresh, now, response, down, rejected, refreshed,
          initialized, stats, session, limiter, waiters, retry, periphery>>

-----------------------------------------------------------------------------
(* Bounds of the model *)

MaxCalls == 1
MaxTime == 1
MaxPages == 4
Capacity == 2
Interval == 2
MaxFailures == 6
FewFailures == 1
MaxRetries == 3
MaxFetches == 3
MaxGets == 2
MaxCacheTime == 2
MaxConnections == 2

-----------------------------------------------------------------------------
(* Program constants *)

SolPrice == 200
PriceChangeThreshold == 1
VolumeSpikeThreshold == 50
CacheTtl == 1
\* withRetry: baseDelay and the cap of the delay, in milliseconds
BaseDelay == 1000
MaxDelay == 30000
\* the maxRetries the adapters pass
AdapterRetries == 3
\* the number of tokens a price update broadcasts at most
PriceBatch == 50
\* the largest time value of a Date, 8.64e15 ms, in the units of pairCreatedAt here
DateRange == 1000

Undefined == "undefined"
Null == -1

Addresses == {"X", "Y"}
DexSource == "dexscreener"
GeckoSource == "geckoterminal"
JupiterSource == "jupiter"
Adapters == {DexSource, GeckoSource, JupiterSource}

-----------------------------------------------------------------------------
(* JavaScript helpers *)

\* a || b that never falls back to b
IncomingOnly(a, b) == a

\* a || b that never takes a
ExistingOnly(a, b) == b

\* a || b on numbers
OrNum(a, b) == IF a # 0 THEN a ELSE b

\* a || b on optional strings
OrStr(a, b) == IF a # Undefined /\ a # "" THEN a ELSE b

\* Math.max(a, b) that takes the incoming count
IncomingCount(a, b) == a

MathMax(a, b) == IF a >= b THEN a ELSE b

MathAbs(a) == IF a < 0 THEN -a ELSE a

\* [...xs] with no Set in between
Concat(xs) == xs

RECURSIVE Dedup(_)
\* [...new Set(xs)]: first occurrences, in order
Dedup(xs) ==
    IF xs = <<>> THEN <<>>
    ELSE LET front == Dedup(SubSeq(xs, 1, Len(xs) - 1))
             last == xs[Len(xs)]
         IN IF \E i \in 1..Len(front) : front[i] = last
            THEN front ELSE Append(front, last)

\* optional socials object: present flag and the set of <<kind, url>> members
NoSocials == [present |-> FALSE, links |-> {}]
Socials(links) == [present |-> TRUE, links |-> links]

\* { ...a, ...b } on two optional socials objects
SpreadSocials(a, b) ==
    Socials({l \in a.links : ~\E m \in b.links : m[1] = l[1]} \cup b.links)

-----------------------------------------------------------------------------
(* Map<string, V> as insertion-ordered entries *)

MapKeys(m) == {m[i].key : i \in 1..Len(m)}
\* a map that reports no key
NeverHas(m, k) == FALSE

MapHas(m, k) == k \in MapKeys(m)
MapGet(m, k) == m[CHOOSE i \in 1..Len(m) : m[i].key = k].value
MapSet(m, k, v) ==
    IF MapHas(m, k)
    THEN [i \in 1..Len(m) |-> IF m[i].key = k THEN [key |-> k, value |-> v] ELSE m[i]]
    ELSE Append(m, [key |-> k, value |-> v])
MapValues(m) == [i \in 1..Len(m) |-> m[i].value]

\* number maps: functions over the set of keys present
NumGet(m, k) == IF k \in DOMAIN m THEN m[k] ELSE 0
NumSet(m, k, v) == [x \in DOMAIN m \cup {k} |-> IF x = k THEN v ELSE m[x]]
EmptyNumMap == [x \in {} |-> 0]

-----------------------------------------------------------------------------
(* Upstream payloads.  A numeric member that is absent upstream is 0 here: *)
(* every read of one is `x?.y || 0`; a creation time of 0 is an absent one. *)

\* DexScreenerPair
DexPair(addr, pairAddr, quote, name, chain, priceUsd, vol24, vol1, fdv, liq, buys, sells, ch1, ch24, createdAt, imageUrl, websites, socials) ==
    [chainId |-> chain, dexId |-> "raydium", pairAddress |-> pairAddr,
     baseToken |-> [address |-> addr, name |-> name, symbol |-> name],
     quoteToken |-> [address |-> quote],
     priceUsd |-> priceUsd,
     txns |-> [h24 |-> [buys |-> buys, sells |-> sells]],
     volume |-> [h24 |-> vol24, h1 |-> vol1],
     priceChange |-> [h1 |-> ch1, h24 |-> ch24],
     liquidity |-> [usd |-> liq],
     fdv |-> fdv,
     pairCreatedAt |-> createdAt,
     info |-> [imageUrl |-> imageUrl, websites |-> websites, socials |-> socials]]

PepeName == <<"P", "e">>
DogeName == <<"D", "o">>

DexA == DexPair("X", "pairX", "Y", PepeName, "solana", 40000, 20000, 2000, 800000, 6000,
                3, 2, 5, -10, 0, "imgA", <<"siteA">>, <<[type |-> "twitter", url |-> "twA"]>>)
DexB == DexPair("X", "pairX", "SOL", PepeName, "solana", 40400, 30000, 4000, 1000000, 8000,
                4, 4, -2, 7, 0, Undefined, <<>>, <<>>)
DexC == DexPair("X", "pairX", "SOL", PepeName, "solana", 40200, 29800, 0, 0, 0,
                0, 0, 0, 0, 0, Undefined, <<>>, <<>>)
DexY == DexPair("Y", "pairY", "SOL", DogeName, "solana", 40000, 20000, 2000, 800000, 6000,
                3, 2, 5, -10, 1, Undefined, <<>>, <<>>)
DexZ == DexPair("Z", "pairZ", "SOL", PepeName, "solana", 600, 20000, 0, 500000, 7000,
                1, 0, 0, 2, 0, Undefined, <<>>, <<>>)
\* a pair whose pairCreatedAt no Date can hold
DexW == DexPair("W", "pairW", "SOL", PepeName, "solana", 500, 100, 0, 1000, 70,
                1, 0, 0, 2, DateRange + 1, Undefined, <<>>, <<>>)
DexXEth == DexPair("X", "pairX", "Y", PepeName, "ethereum", 40000, 20000, 2000, 800000, 6000,
                   3, 2, 5, -10, 0, "imgA", <<"siteA">>, <<[type |-> "twitter", url |-> "twA"]>>)

\* GeckoTerminalPool; the base token id is <<network, address>> for the string
\* "network_address" and <<address>> for a string without an underscore
GeckoPool(baseId, poolAddr, name, priceUsd, mcap, fdv, reserve, vol24, vol1, buys, sells, ch1, ch24, createdAt) ==
    [attributes |->
        [base_token_price_usd |-> priceUsd, address |-> poolAddr,
         name |-> name, pool_created_at |-> createdAt, fdv_usd |-> fdv,
         market_cap_usd |-> mcap, reserve_in_usd |-> reserve,
         volume_usd |-> [h24 |-> vol24, h1 |-> vol1],
         price_change_percentage |-> [h1 |-> ch1, h24 |-> ch24],
         transactions |-> [h24 |-> [buys |-> buys, sells |-> sells]]],
     relationships |-> [base_token |-> [data |-> [id |-> baseId]],
                        dex |-> [data |-> [id |-> "orca"]]]]

GeckoY == GeckoPool(<<"solana", "Y">>, "poolY", DogeName, 39600, 0, 600000, 10000, 0, 0,
                    5, 5, 0, 3, 1)
GeckoYBare == GeckoPool(<<"Y">>, "poolY", DogeName, 40000, 400000, 600000, 0, 30000, 0,
                        0, 0, 0, 0, 0)

\* JupiterToken
JupiterTokenOf(addr, name, logo, dailyVolume) ==
    [address |-> addr, name |-> name, symbol |-> name, logoURI |-> logo,
     daily_volume |-> dailyVolume]

JupiterX == JupiterTokenOf("X", PepeName, "logoX", 29800)
JupiterXBare == JupiterTokenOf("X", PepeName, Undefined, 0)
JupiterY == JupiterTokenOf("Y", DogeName, "logoY", 29800)

\* What the three upstream services can answer: one token whose price and
\* volume move, two tokens seen by different sources, or tokens that
\* DexScreener does not list
Markets ==
    { [dex |-> {DexA, DexB, DexC, DexXEth}, gecko |-> {}, jupiter |-> {}],
      [dex |-> {DexY}, gecko |-> {GeckoY}, jupiter |-> {JupiterXBare, JupiterY}],
      [dex |-> {}, gecko |-> {GeckoY, GeckoYBare}, jupiter |-> {JupiterX}] }

-----------------------------------------------------------------------------
(* Adapters: transformToToken *)

RECURSIVE SocialsFrom(_)
\* DexScreenerClient.extractSocials: later entries of a kind overwrite earlier ones
SocialsFrom(xs) ==
    IF xs = <<>> THEN {}
    ELSE LET x == xs[Len(xs)]
             rest == SocialsFrom(SubSeq(xs, 1, Len(xs) - 1))
         IN IF x.type \in {"twitter", "telegram", "discord"}
            THEN {l \in rest : l[1] # x.type} \cup {<<x.type, x.url>>}
            ELSE rest

\* new Date(pair.pairCreatedAt).toISOString() throws a RangeError: the time
\* value is outside the range of Date
TransformThrows(pair) == pair.pairCreatedAt > DateRange \/ pair.pairCreatedAt < -DateRange

DexTransformToToken(pair, solPrice, t) ==
    [token_address |-> pair.baseToken.address,
     token_name |-> pair.baseToken.name,
     token_ticker |-> pair.baseToken.symbol,
     price_sol |-> pair.priceUsd \div solPrice,
     price_usd |-> pair.priceUsd,
     market_cap_sol |-> pair.fdv \div solPrice,
     market_cap_usd |-> pair.fdv,
     volume_sol |-> pair.volume.h24 \div solPrice,
     volume_usd |-> pair.volume.h24,
     liquidity_sol |-> pair.liquidity.usd \div solPrice,
     liquidity_usd |-> pair.liquidity.usd,
     transaction_count |-> pair.txns.h24.buys + pair.txns.h24.sells,
     price_1hr_change |-> pair.priceChange.h1,
     price_24hr_change |-> pair.priceChange.h24,
     price_7d_change |-> 0,
     volume_1hr |-> pair.volume.h1,
     volume_24hr |-> pair.volume.h24,
     volume_7d |-> 0,
     protocol |-> pair.dexId,
     dex_id |-> pair.dexId,
     chain_id |-> pair.chainId,
     pair_address |-> pair.pairAddress,
     created_at |-> IF pair.pairCreatedAt # 0 THEN pair.pairCreatedAt ELSE t,
     last_updated |-> t,
     sources |-> <<DexSource>>,
     image_url |-> pair.info.imageUrl,
     website |-> IF pair.info.websites = <<>> THEN Undefined ELSE pair.info.websites[1],
     socials |-> Socials(SocialsFrom(pair.info.socials))]

GeckoTransformToToken(pool, solPrice, t) ==
    LET a == pool.attributes
        baseId == pool.relationships.base_token.data.id
        mcap == IF a.market_cap_usd # 0 THEN a.market_cap_usd ELSE a.fdv_usd
    IN
    [token_address |-> IF Len(baseId) > 1 THEN baseId[2] ELSE baseId[1],
     token_name |-> a.name,
     token_ticker |-> a.name,
     price_sol |-> a.base_token_price_usd \div solPrice,
     price_usd |-> a.base_token_price_usd,
     market_cap_sol |-> mcap \div solPrice,
     market_cap_usd |-> mcap,
     volume_sol |-> a.volume_usd.h24 \div solPrice,
     volume_usd |-> a.volume_usd.h24,
     liquidity_sol |-> a.reserve_in_usd \div solPrice,
     liquidity_usd |-> a.reserve_in_usd,
     transaction_count |-> a.transactions.h24.buys + a.transactions.h24.sells,
     price_1hr_change |-> a.price_change_percentage.h1,
     price_24hr_change |-> a.price_change_percentage.h24,
     price_7d_change |-> 0,
     volume_1hr |-> a.volume_usd.h1,
     volume_24hr |-> a.volume_usd.h24,
     volume_7d |-> 0,
     protocol |-> pool.relationships.dex.data.id,
     dex_id |-> pool.relationships.dex.data.id,
     chain_id |-> "solana",
     pair_address |-> a.address,
     created_at |-> IF a.pool_created_at # 0 THEN a.pool_created_at ELSE t,
     last_updated |-> t,
     sources |-> <<GeckoSource>>,
     image_url |-> Undefined,
     website |-> Undefined,
     socials |-> NoSocials]

JupiterTransformToToken(token, priceUsd, solPrice, t) ==
    [token_address |-> token.address,
     token_name |-> token.name,
     token_ticker |-> token.symbol,
     price_sol |-> priceUsd \div solPrice,
     price_usd |-> priceUsd,
     market_cap_sol |-> 0,
     market_cap_usd |-> 0,
     volume_sol |-> token.daily_volume \div solPrice,
     volume_usd |-> token.daily_volume,
     liquidity_sol |-> 0,
     liquidity_usd |-> 0,
     transaction_count |-> 0,
     price_1hr_change |-> 0,
     price_24hr_change |-> 0,
     price_7d_change |-> 0,
     volume_1hr |-> 0,
     volume_24hr |-> token.daily_volume,
     volume_7d |-> 0,
     protocol |-> "jupiter",
     dex_id |-> "jupiter",
     chain_id |-> "solana",
     pair_address |-> "",
     created_at |-> t,
     last_updated |-> t,
     sources |-> <<JupiterSource>>,
     image_url |-> token.logoURI,
     website |-> Undefined,
     socials |-> NoSocials]

\* JupiterClient.getTokenPrices: the price API is skipped, the map is empty
JupiterTokenPrice(addr) == 0

-----------------------------------------------------------------------------
(* TokenAggregator.mergeToken *)

NewTokenEvent(token) == [type |-> "new_token", token |-> token]

PriceUpdateData(merged, prevPrice) ==
    [type |-> "price_update",
     token_address |-> merged.token_address,
     old_price |-> prevPrice,
     new_price |-> merged.price_usd,
     price_change_percent |-> [num |-> (merged.price_usd - prevPrice) * 100, den |-> prevPrice],
     volume_24hr |-> merged.volume_24hr]

VolumeSpikeData(merged, prevVolume) ==
    [type |-> "volume_spike",
     token_address |-> merged.token_address,
     token_ticker |-> merged.token_ticker,
     volume_change_percent |-> [num |-> (merged.volume_24hr - prevVolume) * 100, den |-> prevVolume],
     current_volume |-> merged.volume_24hr,
     previous_volume |-> prevVolume,
     time_window |-> "5m"]

\* previousPrices.get(address) || existingToken.price_usd
PrevObserved(m, address, existingValue) == OrNum(NumGet(m, address), existingValue)

\* the object literal without its last_updated line
MergedTokenUnstamped(existingToken, incoming, t) ==
    [existingToken EXCEPT
        !.price_sol = OrNum(incoming.price_sol, existingToken.price_sol),
        !.price_usd = OrNum(incoming.price_usd, existingToken.price_usd),
        !.market_cap_sol = OrNum(incoming.market_cap_sol, existingToken.market_cap_sol),
        !.market_cap_usd = OrNum(incoming.market_cap_usd, existingToken.market_cap_usd),
        !.volume_sol = OrNum(incoming.volume_sol, existingToken.volume_sol),
        !.volume_usd = OrNum(incoming.volume_usd, existingToken.volume_usd),
        !.liquidity_sol = OrNum(incoming.liquidity_sol, existingToken.liquidity_sol),
        !.liquidity_usd = OrNum(incoming.liquidity_usd, existingToken.liquidity_usd),
        !.transaction_count = MathMax(incoming.transaction_count, existingToken.transaction_count),
        !.price_1hr_change = OrNum(incoming.price_1hr_change, existingToken.price_1hr_change),
        !.price_24hr_change = OrNum(incoming.price_24hr_change, existingToken.price_24hr_change),
        !.volume_1hr = OrNum(incoming.volume_1hr, existingToken.volume_1hr),
        !.volume_24hr = OrNum(incoming.volume_24hr, existingToken.volume_24hr),
        !.sources = Dedup(existingToken.sources \o incoming.sources),
        !.image_url = OrStr(incoming.image_url, existingToken.image_url),
        !.website = OrStr(incoming.website, existingToken.website),
        !.socials = SpreadSocials(existingToken.socials, incoming.socials)]

\* the object literal `mergedToken`
MergedToken(existingToken, incoming, t) ==
    [existingToken EXCEPT
        !.price_sol = OrNum(incoming.price_sol, existingToken.price_sol),
        !.price_usd = OrNum(incoming.price_usd, existingToken.price_usd),
        !.market_cap_sol = OrNum(incoming.market_cap_sol, existingToken.market_cap_sol),
        !.market_cap_usd = OrNum(incoming.market_cap_usd, existingToken.market_cap_usd),
        !.volume_sol = OrNum(incoming.volume_sol, existingToken.volume_sol),
        !.volume_usd = OrNum(incoming.volume_usd, existingToken.volume_usd),
        !.liquidity_sol = OrNum(incoming.liquidity_sol, existingToken.liquidity_sol),
        !.liquidity_usd = OrNum(incoming.liquidity_usd, existingToken.liquidity_usd),
        !.transaction_count = MathMax(incoming.transaction_count, existingToken.transaction_count),
        !.price_1hr_change = OrNum(incoming.price_1hr_change, existingToken.price_1hr_change),
        !.price_24hr_change = OrNum(incoming.price_24hr_change, existingToken.price_24hr_change),
        !.volume_1hr = OrNum(incoming.volume_1hr, existingToken.volume_1hr),
        !.volume_24hr = OrNum(incoming.volume_24hr, existingToken.volume_24hr),
        !.last_updated = t,
        !.sources = Dedup(existingToken.sources \o incoming.sources),
        !.image_url = OrStr(incoming.image_url, existingToken.image_url),
        !.website = OrStr(incoming.website, existingToken.website),
        !.socials = SpreadSocials(existingToken.socials, incoming.socials)]

\* the price test with > 1 in place of >= 1
PriceChangedAbove(prevPrice, price) ==
    /\ prevPrice > 0
    /\ price > 0
    /\ MathAbs((price - prevPrice) * 100) > PriceChangeThreshold * prevPrice

\* prevPrice > 0 && price_usd > 0 && Math.abs(priceChangePercent) >= 1
PriceChanged(prevPrice, price) ==
    /\ prevPrice > 0
    /\ price > 0
    /\ MathAbs((price - prevPrice) * 100) >= PriceChangeThreshold * prevPrice

\* the volume test with > 50 in place of >= 50
VolumeSpikedAbove(prevVolume, volume) ==
    /\ prevVolume > 0
    /\ volume > 0
    /\ (volume - prevVolume) * 100 > VolumeSpikeThreshold * prevVolume

\* prevVolume > 0 && volume_24hr > 0 && volumeChangePercent >= 50
VolumeSpiked(prevVolume, volume) ==
    /\ prevVolume > 0
    /\ volume > 0
    /\ (volume - prevVolume) * 100 >= VolumeSpikeThreshold * prevVolume

\* a record stored under its pool address
PairKey(token) == token.pair_address

\* the key under which mergeToken stores a record
StoreKey(token) == token.token_address

\* an insert that calls no handler
NoInsertEvents(h, incoming) == <<>>

\* the handler calls of a mergeToken for an address not in the map
InsertEvents(h, incoming) ==
    IF h.onNewToken THEN <<NewTokenEvent(incoming)>> ELSE <<>>

\* the handler calls of a mergeToken for an address in the map
ChangeEvents(h, merged, prevPrice, prevVolume) ==
    (IF PriceChanged(prevPrice, merged.price_usd) /\ h.onPriceUpdate
     THEN <<PriceUpdateData(merged, prevPrice)>> ELSE <<>>)
    \o
    (IF VolumeSpiked(prevVolume, merged.volume_24hr) /\ h.onVolumeSpike
     THEN <<VolumeSpikeData(merged, prevVolume)>> ELSE <<>>)

\* the previous-value maps left as they were
PrevUntouched(m, merged, value) == m

\* the previous-value maps keyed by the pool
PrevUnderPair(m, merged, value) == NumSet(m, merged.pair_address, value)

\* previousPrices / previousVolumes after a mergeToken for an address in the map
PrevAfterMerge(m, merged, value) == NumSet(m, merged.token_address, value)

\* the price a handler call carries
EventPrice(e) == IF e.type = "new_token" THEN e.token.price_usd ELSE e.new_price

RECURSIVE HeardAfter(_, _, _)
\* heardPrice after the handler calls es about address
HeardAfter(heard, address, es) ==
    IF es = <<>> THEN heard
    ELSE HeardAfter(IF es[1].type \in {"new_token", "price_update"}
                    THEN NumSet(heard, address, EventPrice(es[1]))
                    ELSE heard,
                    address, Tail(es))

\* the handler calls a mergeToken(incoming) at time t makes
MergeEvents(incoming, t) ==
    IF ~MapHas(tokensMap, incoming.token_address)
    THEN InsertEvents(handlers, incoming)
    ELSE LET existingToken == MapGet(tokensMap, incoming.token_address)
         IN ChangeEvents(handlers, MergedToken(existingToken, incoming, t),
                         PrevObserved(previousPrices, incoming.token_address,
                                      existingToken.price_usd),
                         PrevObserved(previousVolumes, incoming.token_address,
                                      existingToken.volume_24hr))

\* mergeToken(incoming) at time t: the next values of the engine's maps
MergeToken(incoming, t) ==
    IF ~MapHas(tokensMap, incoming.token_address)
    THEN /\ tokensMap' = MapSet(tokensMap, StoreKey(incoming), incoming)
         /\ UNCHANGED <<previousPrices, previousVolumes>>
    ELSE LET existingToken == MapGet(tokensMap, incoming.token_address)
             mergedToken == MergedToken(existingToken, incoming, t)
         IN /\ tokensMap' = MapSet(tokensMap, StoreKey(incoming), mergedToken)
            /\ previousPrices' = PrevAfterMerge(previousPrices, mergedToken, mergedToken.price_usd)
            /\ previousVolumes' = PrevAfterMerge(previousVolumes, mergedToken, mergedToken.volume_24hr)

\* a mergeToken call as a step of the engine
MergeStep(incoming) ==
    /\ lastOp' = "merge"
    /\ newToken' = incoming
    /\ MergeToken(incoming, now)
    /\ emitted' = MergeEvents(incoming, now)
    /\ announced' = IF \E k \in 1..Len(emitted') : emitted'[k].type = "new_token"
                    THEN NumSet(announced, incoming.token_address,
                                NumGet(announced, incoming.token_address) + 1)
                    ELSE announced
    /\ heardPrice' = HeardAfter(heardPrice, incoming.token_address, emitted')
    /\ UNCHANGED <<upstream, down, stats, session, limiter, waiters, retry, periphery>>

\* a step that calls no mergeToken
NoMerge ==
    /\ lastOp' = "other"
    /\ UNCHANGED <<tokensMap, previousPrices, previousVolumes, emitted, announced,
                   heardPrice, newToken, upstream, response, down, stats, session,
                   limiter, waiters, retry, periphery>>

\* a step in which a call returns result, or suspends with it, merging
\* nothing; the answer is part of the state when the caller is observed
Returns(observed, op, request, result) ==
    /\ lastOp' = IF observed THEN op ELSE "other"
    /\ response' = IF observed THEN [request |-> request, result |-> result] ELSE response
    /\ UNCHANGED <<tokensMap, previousPrices, previousVolumes, emitted, announced,
                   heardPrice, newToken, upstream, down, stats, session, limiter,
                   waiters, retry, periphery>>

-----------------------------------------------------------------------------
(* Strings of names and queries *)

ToLowerChar(c) ==
    CASE c = "P" -> "p"
      [] c = "D" -> "d"
      [] c = "E" -> "e"
      [] c = "O" -> "o"
      [] c = "X" -> "x"
      [] c = "Y" -> "y"
      [] OTHER -> c

ToLowerCase(str) == [i \in 1..Len(str) |-> ToLowerChar(str[i])]

\* String.prototype.includes
Includes(str, sub) ==
    \E i \in 0..(Len(str) - Len(sub)) : SubSeq(str, i + 1, i + Len(sub)) = sub

Queries == {<<"p">>, <<"D", "O">>}
SearchLimits == {1, 2}

-----------------------------------------------------------------------------
(* MemoryCache: entries keyed by <<"tokens", "all">> and <<"token", address>> *)

AllKey == <<"tokens", "all">>
TokenKey(address) == <<"token", address>>

\* a test of expiry that lets entries live one tick less
ExpiredAtExpiry(c, key, t) == key \in DOMAIN c /\ ~(t >= c[key].expiry)

\* MemoryCache.get: a stored entry that has not expired
CacheHit(c, key, t) == key \in DOMAIN c /\ ~(t > c[key].expiry)

\* MemoryCache.data after get(key): an expired entry is deleted
CacheAfterGet(c, key, t) ==
    IF key \in DOMAIN c /\ t > c[key].expiry
    THEN [k \in DOMAIN c \ {key} |-> c[k]]
    ELSE c

\* MemoryCache.data after set(key, value, ttl)
CacheSet(c, key, value, ttl, t) ==
    [k \in DOMAIN c \cup {key} |->
        IF k = key THEN [value |-> value, expiry |-> t + ttl] ELSE c[k]]

\* TokenAggregator.cacheTokens: the snapshot and one entry per token
CacheTokens(c, tokensArray, ttl, t) ==
    [k \in DOMAIN c \cup {AllKey} \cup {TokenKey(tokensArray[i].token_address) : i \in 1..Len(tokensArray)} |->
        IF k = AllKey THEN [value |-> tokensArray, expiry |-> t + ttl]
        ELSE IF \E i \in 1..Len(tokensArray) : TokenKey(tokensArray[i].token_address) = k
        THEN [value |-> tokensArray[CHOOSE i \in 1..Len(tokensArray) :
                                        /\ TokenKey(tokensArray[i].token_address) = k
                                        /\ \A j \in (i + 1)..Len(tokensArray) :
                                              TokenKey(tokensArray[j].token_address) # k],
              expiry |-> t + ttl]
        ELSE c[k]]

-----------------------------------------------------------------------------
(* JavaScript numbers and strings of the pagination code: a number is an    *)
(* integer or NaN, a string is a tuple of characters.                       *)

Num(n) == [nan |-> FALSE, n |-> n]
NaN == [nan |-> TRUE, n |-> 0]

Digits == <<"0", "1", "2", "3", "4", "5", "6", "7", "8", "9">>
IsDigit(c) == \E d \in 1..10 : Digits[d] = c
DigitValue(c) == (CHOOSE d \in 1..10 : Digits[d] = c) - 1

RECURSIVE ToDigits(_)
ToDigits(n) ==
    IF n < 10 THEN <<Digits[n + 1]>>
    ELSE Append(ToDigits(n \div 10), Digits[(n % 10) + 1])

\* every number printed as "0"
ZeroString(n) == <<"0">>

\* Number.prototype.toString of an integer
NumberToString(n) == IF n < 0 THEN <<"-">> \o ToDigits(-n) ELSE ToDigits(n)

RECURSIVE ParseDigits(_, _, _)
\* the value of the longest prefix of digits of str, NaN when it is empty
ParseDigits(str, acc, any) ==
    IF str # <<>> /\ IsDigit(str[1])
    THEN ParseDigits(Tail(str), acc * 10 + DigitValue(str[1]), TRUE)
    ELSE IF any THEN Num(acc) ELSE NaN

\* parseInt(str, 10)
ParseInt(str) ==
    IF str # <<>> /\ str[1] = "-"
    THEN LET r == ParseDigits(Tail(str), 0, FALSE) IN IF r.nan THEN NaN ELSE Num(-r.n)
    ELSE IF str # <<>> /\ str[1] = "+" THEN ParseDigits(Tail(str), 0, FALSE)
    ELSE ParseDigits(str, 0, FALSE)

\* Buffer.from(text).toString('base64') and Buffer.from(str, 'base64').toString('utf-8')
Base64Encode(text) == [base64 |-> text]
Base64Decode(str) == str.base64

\* the empty string, and null, as a cursor
NoCursor == Base64Encode(<<>>)

MathMin(a, b) == IF a <= b THEN a ELSE b

\* Array.prototype.slice(start, end); a NaN index counts as 0
Slice(xs, start, end) ==
    LET len == Len(xs)
        rel(i) == IF i.nan THEN 0
                  ELSE IF i.n < 0 THEN MathMax(len + i.n, 0) ELSE MathMin(i.n, len)
    IN SubSeq(xs, rel(start) + 1, rel(end))

-----------------------------------------------------------------------------
(* getTokens: filter, sort, paginate.  An optional argument or member is a  *)
(* set: empty when it is undefined, a singleton otherwise.                  *)

Absent == {}
Some(v) == {v}
The(opt) == CHOOSE v \in opt : TRUE

DefaultPageSize == 30
MaxPageSize == 100

\* String.prototype.toLowerCase of a protocol or chain identifier
ToLowerId(id) ==
    CASE id = "Raydium" -> "raydium"
      [] id = "SOLANA" -> "solana"
      [] OTHER -> id

\* the 24h volume whatever the period
DayVolume(token, timePeriod) == OrNum(token.volume_24hr, token.volume_usd)

\* token.volume_1hr / volume_7d / volume_24hr || token.volume_usd
GetVolume(token, timePeriod) ==
    CASE timePeriod = "1h" -> OrNum(token.volume_1hr, token.volume_usd)
      [] timePeriod = "7d" -> OrNum(token.volume_7d, token.volume_usd)
      [] OTHER -> OrNum(token.volume_24hr, token.volume_usd)

GetPriceChange(token, timePeriod) ==
    CASE timePeriod = "1h" -> token.price_1hr_change
      [] timePeriod = "7d" -> token.price_7d_change
      [] OTHER -> token.price_24hr_change

NoFilter ==
    [timePeriod |-> Undefined, minVolume |-> Absent, maxVolume |-> Absent,
     minMarketCap |-> Absent, maxMarketCap |-> Absent, minLiquidity |-> Absent,
     protocol |-> Undefined, chain |-> Undefined, search |-> <<>>]

\* the predicate of applyFilters
PassesFilter(token, filter) ==
    LET volume == GetVolume(token, OrStr(filter.timePeriod, "24h"))
        searchLower == ToLowerCase(filter.search)
    IN /\ ~(filter.minVolume # Absent /\ volume < The(filter.minVolume))
       /\ ~(filter.maxVolume # Absent /\ volume > The(filter.maxVolume))
       /\ ~(filter.minMarketCap # Absent /\ token.market_cap_usd < The(filter.minMarketCap))
       /\ ~(filter.maxMarketCap # Absent /\ token.market_cap_usd > The(filter.maxMarketCap))
       /\ ~(filter.minLiquidity # Absent /\ token.liquidity_usd < The(filter.minLiquidity))
       /\ ~(/\ OrStr(filter.protocol, "") # ""
            /\ ToLowerId(token.protocol) # ToLowerId(filter.protocol))
       /\ ~(/\ OrStr(filter.chain, "") # ""
            /\ ToLowerId(token.chain_id) # ToLowerId(filter.chain))
       /\ ~(/\ filter.search # <<>>
            /\ ~Includes(ToLowerCase(token.token_name), searchLower)
            /\ ~Includes(ToLowerCase(token.token_ticker), searchLower)
            /\ ~Includes(ToLowerCase(<<token.token_address>>), searchLower))

\* a filter that keeps every token
KeepAll(tokens, filter) == tokens

ApplyFilters(tokens, filter) == SelectSeq(tokens, LAMBDA token : PassesFilter(token, filter))

\* a comparator value that is the market cap for every field but volume
SortValueByCap(token, sort) == IF sort.field = "volume" THEN GetVolume(token, OrStr(sort.timePeriod, "24h")) ELSE token.market_cap_usd

\* valueA / valueB of the comparator of applySorting
SortValue(token, sort) ==
    LET timePeriod == OrStr(sort.timePeriod, "24h")
    IN CASE sort.field = "volume" -> GetVolume(token, timePeriod)
         [] sort.field = "price_change" -> GetPriceChange(token, timePeriod)
         [] sort.field = "market_cap" -> token.market_cap_usd
         [] sort.field = "liquidity" -> token.liquidity_usd
         [] sort.field = "transaction_count" -> token.transaction_count
         [] sort.field = "created_at" -> token.created_at
         [] OTHER -> GetVolume(token, timePeriod)

\* a comparator that ignores the direction
CompareAscending(a, b, sort) == SortValue(a, sort) - SortValue(b, sort)

\* the comparator of applySorting
Compare(a, b, sort) ==
    (SortValue(a, sort) - SortValue(b, sort)) * (IF sort.direction = "desc" THEN -1 ELSE 1)

RECURSIVE ApplySorting(_, _)
\* Array.prototype.sort is stable: equal elements keep their order
ApplySorting(tokens, sort) ==
    IF tokens = <<>> THEN <<>>
    ELSE LET front == ApplySorting(SubSeq(tokens, 1, Len(tokens) - 1), sort)
             last == tokens[Len(tokens)]
             k == Cardinality({i \in 1..Len(front) : Compare(front[i], last, sort) <= 0})
         IN SubSeq(front, 1, k) \o <<last>> \o SubSeq(front, k + 1, Len(front))

ApplyPagination(tokens, limit, cursor) ==
    LET startIndex == IF cursor # NoCursor THEN ParseInt(Base64Decode(cursor)) ELSE Num(0)
        endIndex == IF startIndex.nan THEN NaN
                    ELSE Num(MathMin(startIndex.n + limit, Len(tokens)))
        hasMore == ~endIndex.nan /\ endIndex.n < Len(tokens)
    IN [paginatedTokens |-> Slice(tokens, startIndex, endIndex),
        nextCursor |-> IF hasMore THEN Base64Encode(NumberToString(endIndex.n)) ELSE NoCursor,
        prevCursor |-> IF ~startIndex.nan /\ startIndex.n > 0
                       THEN Base64Encode(NumberToString(MathMax(0, startIndex.n - limit)))
                       ELSE NoCursor,
        hasMore |-> hasMore]

RECURSIVE AllSources(_)
AllSources(tokens) ==
    IF tokens = <<>> THEN <<>> ELSE tokens[1].sources \o AllSources(Tail(tokens))

\* the sources of the first record only
SourcesOfFirst(map) == IF map = <<>> THEN <<>> ELSE map[1].value.sources

GetActiveSources(map) == Dedup(AllSources(MapValues(map)))

\* the snapshot under 'tokens:all', << >> when cache.get returns null
CachedTokens(c, t) == IF CacheHit(c, AllKey, t) THEN c[AllKey].value ELSE <<>>

\* a getTokens that never reads the snapshot
MapOnly(c, map, t) == MapValues(map)

\* the list a getTokens call starts from
TokensSource(c, map, t) ==
    IF Len(CachedTokens(c, t)) > 0 THEN CachedTokens(c, t) ELSE MapValues(map)

\* the list a getTokens call paginates
FilteredSorted(c, map, t, filter, sort) ==
    LET all == TokensSource(c, map, t)
        filtered == IF filter # Absent THEN ApplyFilters(all, The(filter)) ELSE all
    IN IF sort # Absent THEN ApplySorting(filtered, The(sort)) ELSE filtered

GetTokens(c, map, t, filter, sort, pagination) ==
    LET tokens == FilteredSorted(c, map, t, filter, sort)
        limit == IF pagination # Absent THEN OrNum(The(pagination).limit, DefaultPageSize)
                 ELSE DefaultPageSize
        page == ApplyPagination(tokens, limit,
                                IF pagination # Absent THEN The(pagination).cursor ELSE NoCursor)
    IN [data |-> page.paginatedTokens,
        pagination |-> [limit |-> limit, next_cursor |-> page.nextCursor,
                        prev_cursor |-> page.prevCursor, total_count |-> Len(tokens),
                        has_more |-> page.hasMore],
        meta |-> [timestamp |-> t, cache_hit |-> Len(CachedTokens(c, t)) > 0,
                  sources |-> GetActiveSources(map)]]

-----------------------------------------------------------------------------
(* The engine *)

NoHandlers == [onPriceUpdate |-> FALSE, onVolumeSpike |-> FALSE, onNewToken |-> FALSE]
AllHandlers == [onPriceUpdate |-> TRUE, onVolumeSpike |-> TRUE, onNewToken |-> TRUE]
HandlerChoices == {AllHandlers}

NoToken == [token_address |-> Undefined]
NoLoop == [op |-> "none", src |-> "none", seen |-> {}]

\* the callers of one adapter's limiter
Callers == {"trending", "search"}

\* new RateLimiter(maxTokens, refillRate, name): tokens counts ticks of refill,
\* Interval of them making one token; since is Date.now() - lastRefill, kept
\* up to the time that fills the bucket; burst counts the tokens taken since
\* the bucket was full with no time elapsed, -1 once time has passed
NewLimiter == [tokens |-> Capacity * Interval, since |-> 0, failures |-> 0, burst |-> 0, op |-> "none"]
NoWaiters == [c \in Callers |-> [pc |-> "idle", timer |-> 0]]
\* new MemoryCache(): hits = 0, misses = 0
NoHits == [hits |-> 0, misses |-> 0]
\* nothing set and no get made
NoHistory == [written |-> [k \in {} |-> 0], gets |-> 0]
\* new WebSocketServer(): no client, connectionCount = 0, nothing sent; no
\* client has unsubscribed
NoSockets ==
    [clients |-> [id \in {} |-> 0], connectionCount |-> 0, delivered |-> {}, silenced |-> {}]
\* new UpdateScheduler()
JobNames == {"priceUpdate", "fullRefresh", "solPriceUpdate"}
\* new UpdateScheduler(): the three job fields null, isRunning = false; no cron
\* task exists, no runFullRefresh is waiting, and no call has been made
Stopped ==
    [isRunning |-> FALSE, jobs |-> [name \in JobNames |-> FALSE],
     tasks |-> [name \in JobNames |-> 0], awaiting |-> FALSE, op |-> "none",
     returnedEarly |-> FALSE]

\* let lastErr: Error, before any assignment
NoError == [error |-> FALSE, message |-> ""]
\* no withRetry call in progress; sent and granted count the requests and the tokens of an adapter
NoRetry == [pc |-> "idle", maxRetries |-> 0, onRetry |-> "none", i |-> 0, attempts |-> 0, retried |-> 0, failing |-> NoError, lastErr |-> NoError, delay |-> 0, result |-> "", thrown |-> NoError, sent |-> 0, granted |-> 0]
NoSearch == [active |-> FALSE, query |-> <<>>, limit |-> 0]
NoRequest == [filter |-> Absent, sort |-> Absent, pagination |-> Absent]
NoSession == [pages |-> 0, visited |-> <<>>, expected |-> <<>>]
NoStats == [totalTokens |-> 0, lastRefresh |-> Null, sources |-> <<>>]
NoResponse == [request |-> NoRequest, result |-> GetTokens([k \in {} |-> 0], <<>>, 0, Absent, Absent, Absent)]

Init ==
    /\ tokensMap = <<>>
    /\ previousPrices = EmptyNumMap
    /\ previousVolumes = EmptyNumMap
    /\ handlers = NoHandlers
    /\ emitted = <<>>
    /\ announced = EmptyNumMap
    /\ heardPrice = EmptyNumMap
    /\ newToken = NoToken
    /\ lastOp = "other"
    /\ calls = 0
    /\ refreshing = FALSE
    /\ pending = {}
    /\ loop = NoLoop
    /\ lookups = {}
    /\ searching = NoSearch
    /\ cache = [k \in {} |-> 0]
    /\ upstream \in Markets
    /\ lastFullRefresh = Null
    /\ now = 0
    /\ response = NoResponse
    /\ down = {}
    /\ rejected = {}
    /\ refreshed = "none"
    /\ initialized = "none"
    /\ stats = NoStats
    /\ session = NoSession /\ limiter = NewLimiter /\ waiters = NoWaiters /\ retry = NoRetry
    /\ cacheStats = NoHits /\ history = NoHistory /\ sockets = NoSockets /\ scheduler = Stopped

SetEventHandlers(h) ==
    /\ loop = NoLoop
    /\ handlers' = h
    /\ NoMerge
    /\ UNCHANGED <<calls, refreshing, pending, loop, lookups, searching, cache,
                   lastFullRefresh, now>>
    /\ UNCHANGED <<rejected, refreshed, initialized>>

\* the clock advances
Tick ==
    /\ now < MaxTime
    /\ now' = now + 1
    /\ NoMerge
    /\ UNCHANGED <<handlers, calls, refreshing, pending, loop, lookups, searching, cache,
                   lastFullRefresh>>
    /\ UNCHANGED <<rejected, refreshed, initialized>>

\* refreshAllData up to its await of the three fetches
RefreshAllData ==
    /\ loop = NoLoop
    /\ calls < MaxCalls
    /\ calls' = calls + 1
    /\ ~refreshing
    /\ refreshing' = TRUE
    /\ pending' = Adapters
    /\ rejected' = {}
    /\ refreshed' = "running"
    /\ NoMerge
    /\ UNCHANGED <<handlers, loop, lookups, searching, cache, lastFullRefresh, now, initialized>>

InRefreshLoop(src) ==
    /\ refreshing
    /\ src \in pending
    /\ loop = NoLoop \/ (loop.op = "refresh" /\ loop.src = src)

\* one iteration of the loop of fetchFromDexScreener over getPairsByChain's result
FetchFromDexScreener(pair) ==
    /\ InRefreshLoop(DexSource)
    /\ DexSource \notin down
    /\ pair.chainId = "solana"
    /\ pair.baseToken.address \notin loop.seen
    /\ ~TransformThrows(pair)
    /\ MergeStep(DexTransformToToken(pair, SolPrice, now))
    /\ loop' = [op |-> "refresh", src |-> DexSource,
                seen |-> loop.seen \cup {pair.baseToken.address}]
    /\ UNCHANGED <<handlers, calls, refreshing, pending, lookups, searching, cache,
                   lastFullRefresh, now>>
    /\ UNCHANGED <<rejected, refreshed, initialized, response>>

\* the iteration of that loop in which transformToToken throws: the catch
\* around the loop logs and rethrows, and the fetch is rejected
FetchFromDexScreenerThrows(pair) ==
    /\ InRefreshLoop(DexSource)
    /\ DexSource \notin down
    /\ pair.chainId = "solana"
    /\ pair.baseToken.address \notin loop.seen
    /\ TransformThrows(pair)
    /\ pending' = pending \ {DexSource}
    /\ rejected' = rejected \cup {DexSource}
    /\ loop' = NoLoop
    /\ NoMerge
    /\ UNCHANGED <<handlers, calls, refreshing, lookups, searching, cache,
                   lastFullRefresh, now, refreshed, initialized>>

\* one iteration of the loop of fetchFromGeckoTerminal over trending and new pools
FetchFromGeckoTerminal(pool) ==
    /\ InRefreshLoop(GeckoSource)
    /\ GeckoSource \notin down
    /\ MergeStep(GeckoTransformToToken(pool, SolPrice, now))
    /\ loop' = [op |-> "refresh", src |-> GeckoSource, seen |-> {}]
    /\ UNCHANGED <<handlers, calls, refreshing, pending, lookups, searching, cache,
                   lastFullRefresh, now>>
    /\ UNCHANGED <<rejected, refreshed, initialized, response>>

\* one iteration of the loop of fetchFromJupiter over getTrendingTokens' result
FetchFromJupiter(token) ==
    /\ InRefreshLoop(JupiterSource)
    /\ JupiterSource \notin down
    /\ token.address \notin loop.seen
    /\ MergeStep(JupiterTransformToToken(token, JupiterTokenPrice(token.address), SolPrice, now))
    /\ loop' = [op |-> "refresh", src |-> JupiterSource,
                seen |-> loop.seen \cup {token.address}]
    /\ UNCHANGED <<handlers, calls, refreshing, pending, lookups, searching, cache,
                   lastFullRefresh, now>>
    /\ UNCHANGED <<rejected, refreshed, initialized, response>>

\* The clients whose refresh calls catch the error of a failed request and
\* answer with an empty list: DexScreenerClient.getPairsByChain and
\* JupiterClient.searchTokens / getTrendingTokens
Swallowing == {DexSource, JupiterSource}

\* fetchFromX rejects: the client's error reached its catch and was rethrown
FetchRejects(src, dn) == src \in dn \ Swallowing

\* a fetch of the refresh settles: its loop is over, it merged nothing, or
\* its client threw
FetchSettled(src) ==
    /\ InRefreshLoop(src)
    /\ pending' = pending \ {src}
    /\ rejected' = IF FetchRejects(src, down) THEN rejected \cup {src} ELSE rejected
    /\ loop' = NoLoop
    /\ NoMerge
    /\ UNCHANGED <<handlers, calls, refreshing, lookups, searching, cache,
                   lastFullRefresh, now, refreshed, initialized>>

\* Promise.all: rejected as soon as one promise is
PromiseAll(pend, rej) ==
    IF rej # {} THEN "rejected" ELSE IF pend # {} THEN "pending" ELSE "fulfilled"

\* Promise.allSettled: fulfilled once no promise is pending, never rejected
PromiseAllSettled(pend, rej) == IF pend # {} THEN "pending" ELSE "fulfilled"

\* refreshAllData after its await: the throw of a rejected await, or
\* lastFullRefresh and cacheTokens; initialize() ends as its refresh does
RefreshDone ==
    LET settled == PromiseAllSettled(pending, rejected)
    IN /\ loop = NoLoop
       /\ refreshing
       /\ settled # "pending"
       /\ refreshing' = FALSE
       /\ refreshed' = IF settled = "rejected" THEN "rejected" ELSE "resolved"
       /\ lastFullRefresh' = IF settled = "rejected" THEN lastFullRefresh ELSE now
       /\ cache' = IF settled = "rejected" THEN cache
                   ELSE CacheTokens(cache, MapValues(tokensMap), CacheTtl, now)
       /\ initialized' = IF initialized = "refresh" THEN refreshed' ELSE initialized
       /\ NoMerge
       /\ UNCHANGED <<handlers, calls, pending, loop, lookups, searching, now, rejected>>

\* getTokenByAddress up to its return or its await of the fallback fetch
GetTokenByAddress(address, observed) ==
    /\ loop = NoLoop
    /\ calls < MaxCalls
    /\ calls' = calls + 1
    /\ cache' = CacheAfterGet(cache, TokenKey(address), now)
    /\ lookups' = IF \/ CacheHit(cache, TokenKey(address), now)
                     \/ MapHas(tokensMap, address)
                  THEN lookups
                  ELSE lookups \cup {address}
    /\ Returns(observed, "lookup", [lookup |-> address],
               IF CacheHit(cache, TokenKey(address), now)
               THEN [returned |-> TRUE, token |-> cache[TokenKey(address)].value, fetches |-> 0]
               ELSE IF MapHas(tokensMap, address)
               THEN [returned |-> TRUE, token |-> MapGet(tokensMap, address), fetches |-> 0]
               ELSE [returned |-> FALSE, token |-> NoToken, fetches |-> 1])
    /\ UNCHANGED <<handlers, refreshing, pending, loop, searching, lastFullRefresh, now>>
    /\ UNCHANGED <<rejected, refreshed, initialized>>

\* the fallback fetch returned pairs, pairs[0] = pair
GetTokenByAddressFound(address, pair, observed) ==
    /\ loop = NoLoop
    /\ address \in lookups
    /\ address \in {pair.baseToken.address, pair.quoteToken.address}
    /\ DexSource \notin down
    /\ MergeStep(DexTransformToToken(pair, SolPrice, now))
    /\ response' = IF observed
                   THEN [request |-> [lookup |-> address],
                         result |-> [returned |-> TRUE, fetches |-> 1,
                                     token |-> DexTransformToToken(pair, SolPrice, now)]]
                   ELSE response
    /\ cache' = CacheSet(cache, TokenKey(address),
                         DexTransformToToken(pair, SolPrice, now), CacheTtl, now)
    /\ lookups' = lookups \ {address}
    /\ UNCHANGED <<handlers, calls, refreshing, pending, loop, searching,
                   lastFullRefresh, now>>
    /\ UNCHANGED <<rejected, refreshed, initialized>>

\* the fallback fetch returned no pair, or failed
GetTokenByAddressMissed(address, observed) ==
    /\ loop = NoLoop
    /\ address \in lookups
    /\ lookups' = lookups \ {address}
    /\ Returns(observed, "lookup", [lookup |-> address],
               [returned |-> TRUE, token |-> NoToken, fetches |-> 1])
    /\ UNCHANGED <<handlers, calls, refreshing, pending, loop, searching, cache,
                   lastFullRefresh, now>>
    /\ UNCHANGED <<rejected, refreshed, initialized>>

\* token.token_name / token_ticker .toLowerCase().includes(lowerQuery)
MatchesQuery(token, query) ==
    \/ Includes(ToLowerCase(token.token_name), ToLowerCase(query))
    \/ Includes(ToLowerCase(token.token_ticker), ToLowerCase(query))

MemoryResults(query) ==
    {i \in 1..Len(tokensMap) : MatchesQuery(tokensMap[i].value, query)}

\* Array.from(tokensMap.values()).filter(...)
Matching(map, query) == SelectSeq(MapValues(map), LAMBDA token : MatchesQuery(token, query))

\* searchTokens up to its return or its await of the two upstream searches
SearchTokens(query, limit, observed) ==
    /\ loop = NoLoop
    /\ calls < MaxCalls
    /\ calls' = calls + 1
    /\ ~searching.active
    /\ searching' = IF Cardinality(MemoryResults(query)) < limit
                    THEN IF observed THEN [active |-> TRUE, query |-> query, limit |-> limit]
                         ELSE [NoSearch EXCEPT !.active = TRUE]
                    ELSE NoSearch
    /\ Returns(observed, "search", [search |-> query, limit |-> limit],
               IF searching'.active THEN [returned |-> FALSE, tokens |-> <<>>, upstream |-> TRUE]
               ELSE [returned |-> TRUE, upstream |-> FALSE,
                     tokens |-> Slice(Matching(tokensMap, query), Num(0), Num(limit))])
    /\ UNCHANGED <<handlers, refreshing, pending, loop, lookups, cache, lastFullRefresh, now>>
    /\ UNCHANGED <<rejected, refreshed, initialized>>

\* one iteration of the loop of searchTokens over the DexScreener hits
SearchMergeDex(pair) ==
    /\ searching.active
    /\ DexSource \notin down
    /\ loop = NoLoop \/ loop.op = "searchDex"
    /\ pair.chainId = "solana"
    /\ MergeStep(DexTransformToToken(pair, SolPrice, now))
    /\ loop' = [op |-> "searchDex", src |-> DexSource, seen |-> {}]
    /\ UNCHANGED <<handlers, calls, refreshing, pending, lookups, searching, cache,
                   lastFullRefresh, now>>
    /\ UNCHANGED <<rejected, refreshed, initialized, response>>

\* one iteration of the loop of searchTokens over the GeckoTerminal hits
SearchMergeGecko(pool) ==
    /\ searching.active
    /\ GeckoSource \notin down
    /\ loop = NoLoop \/ loop.op \in {"searchDex", "searchGecko"}
    /\ MergeStep(GeckoTransformToToken(pool, SolPrice, now))
    /\ loop' = [op |-> "searchGecko", src |-> GeckoSource, seen |-> {}]
    /\ UNCHANGED <<handlers, calls, refreshing, pending, lookups, searching, cache,
                   lastFullRefresh, now>>
    /\ UNCHANGED <<rejected, refreshed, initialized, response>>

\* searchTokens returns
SearchDone(observed) ==
    /\ searching.active
    /\ loop = NoLoop \/ loop.op \in {"searchDex", "searchGecko"}
    /\ searching' = NoSearch
    /\ loop' = NoLoop
    /\ Returns(observed, "search", [search |-> searching.query, limit |-> searching.limit],
               [returned |-> TRUE, upstream |-> TRUE,
                tokens |-> Slice(Matching(tokensMap, searching.query), Num(0),
                                 Num(searching.limit))])
    /\ UNCHANGED <<handlers, calls, refreshing, pending, lookups, cache, lastFullRefresh, now>>
    /\ UNCHANGED <<rejected, refreshed, initialized>>

Next ==
    \/ \E h \in HandlerChoices : SetEventHandlers(h)
    \/ Tick
    \/ RefreshAllData
    \/ \E pair \in upstream.dex : FetchFromDexScreener(pair)
    \/ \E pool \in upstream.gecko : FetchFromGeckoTerminal(pool)
    \/ \E token \in upstream.jupiter : FetchFromJupiter(token)
    \/ \E src \in Adapters : FetchSettled(src)
    \/ RefreshDone
    \/ \E address \in Addresses : GetTokenByAddress(address, FALSE)
    \/ \E address \in Addresses : \E pair \in upstream.dex : GetTokenByAddressFound(address, pair, FALSE)
    \/ \E address \in Addresses : GetTokenByAddressMissed(address, FALSE)
    \/ \E query \in Queries : \E limit \in SearchLimits : SearchTokens(query, limit, FALSE)
    \/ \E pair \in upstream.dex : SearchMergeDex(pair)
    \/ \E pool \in upstream.gecko : SearchMergeGecko(pool)
    \/ SearchDone(FALSE)

Spec == Init /\ [][Next]_vars

-----------------------------------------------------------------------------
(* The engine once initialize() has returned, serving getTokens calls next  *)
(* to lookups, searches and further refreshes                               *)

\* tokensMap after mergeToken inserted tokens of distinct addresses, in order
MapOf(tokens) == [i \in 1..Len(tokens) |-> [key |-> StoreKey(tokens[i]), value |-> tokens[i]]]

\* What the upstream services answer, and the records that the refresh of
\* initialize() merged out of it at time 0
OpenMarket == [dex |-> {DexA, DexY}, gecko |-> {GeckoY}, jupiter |-> {JupiterX}]

Startups ==
    { [upstream |-> OpenMarket, initialized |-> "resolved",
       loaded |-> <<GeckoTransformToToken(GeckoY, SolPrice, 0)>>],
      [upstream |-> OpenMarket, initialized |-> "resolved",
       loaded |-> <<DexTransformToToken(DexY, SolPrice, 0),
                    JupiterTransformToToken(JupiterX, JupiterTokenPrice("X"), SolPrice, 0)>>],
      [upstream |-> [dex |-> {DexA}, gecko |-> {GeckoY}, jupiter |-> {JupiterX, JupiterY}],
       initialized |-> "resolved", loaded |-> <<>>] }

\* the records that searches and lookups of a startup inserted after its
\* refresh: they are in the map and not in the cache
Searched(s) == IF "searched" \in DOMAIN s THEN s.searched ELSE <<>>

\* the records of a startup in the order of their insertion
Records(s) == s.loaded \o Searched(s)

\* the engine as startup s leaves it, the adapters of dn failing from then on,
\* with the fallback fetches of getTokenByAddress calls for `looking` in flight
LoadedLooking(s, dn, looking) ==
        /\ upstream = s.upstream
        /\ tokensMap = MapOf(Records(s))
        /\ previousPrices = EmptyNumMap
        /\ previousVolumes = EmptyNumMap
        /\ handlers = AllHandlers
        /\ emitted = IF Records(s) = <<>> THEN <<>>
                     ELSE InsertEvents(AllHandlers, Records(s)[Len(Records(s))])
        /\ announced = [a \in MapKeys(MapOf(Records(s))) |-> 1]
        /\ heardPrice = [a \in MapKeys(MapOf(Records(s))) |-> MapGet(MapOf(Records(s)), a).price_usd]
        /\ newToken = IF Records(s) = <<>> THEN NoToken ELSE Records(s)[Len(Records(s))]
        /\ lastOp = "other"
        /\ calls = MaxCalls - 1    \* one further call is explored
        /\ refreshing = FALSE
        /\ pending = {}
        /\ loop = NoLoop
        /\ lookups = looking
        /\ searching = NoSearch
        /\ cache = IF s.initialized = "none" THEN [k \in {} |-> 0]
                   ELSE CacheTokens([k \in {} |-> 0], s.loaded, CacheTtl, 0)
        /\ lastFullRefresh = IF s.initialized = "none" THEN Null ELSE 0
        /\ now = 0
        /\ response = NoResponse
        /\ down = dn
        /\ rejected = {}
        /\ refreshed = IF s.initialized = "none" THEN "none" ELSE "resolved"
        /\ initialized = s.initialized
        /\ stats = NoStats
        /\ session = NoSession /\ limiter = NewLimiter /\ waiters = NoWaiters /\ retry = NoRetry
        /\ cacheStats = NoHits /\ history = NoHistory /\ sockets = NoSockets /\ scheduler = Stopped

Loaded(s, dn) == LoadedLooking(s, dn, {})

Started == \E s \in Startups : Loaded(s, {})

Requests ==
    { NoRequest,
      [filter |-> Absent, sort |-> Absent, pagination |-> Some([limit |-> 1, cursor |-> NoCursor])],
      [filter |-> Absent,
       sort |-> Some([field |-> "volume", direction |-> "desc", timePeriod |-> Undefined]),
       pagination |-> Absent],
      [filter |-> Some([NoFilter EXCEPT !.chain = "SOLANA"]), sort |-> Absent,
       pagination |-> Absent] }

\* the cursor that a getTokens request carries, if any
CursorOf(request) ==
    IF request.pagination = Absent THEN NoCursor ELSE The(request.pagination).cursor

\* a getTokens call; a client that asks without a cursor starts paging
GetTokensCall(request) ==
    /\ loop = NoLoop
    /\ lastOp' = "query"
    /\ cache' = CacheAfterGet(cache, AllKey, now)
    /\ response' = [request |-> request,
                    result |-> GetTokens(cache, tokensMap, now, request.filter,
                                         request.sort, request.pagination)]
    /\ session' = IF CursorOf(request) # NoCursor THEN NoSession
                  ELSE [pages |-> 1, visited |-> response'.result.data,
                        expected |-> FilteredSorted(cache, tokensMap, now, request.filter,
                                                    request.sort)]
    /\ UNCHANGED <<tokensMap, previousPrices, previousVolumes, handlers, emitted, announced,
                   heardPrice, newToken, calls, refreshing, pending, loop, lookups,
                   searching, upstream, lastFullRefresh, now, down, rejected, refreshed,
                   initialized, stats, limiter, waiters, retry, periphery>>

ServingNext ==
    \/ Next
    \/ \E request \in Requests : GetTokensCall(request)

ServingSpec == Started /\ [][ServingNext]_vars

-----------------------------------------------------------------------------
(* GET /api/tokens and a client that follows next_cursor *)

\* req.query without parameters; min_volume, max_volume, min_market_cap,
\* max_market_cap and min_liquidity hold the number that parseFloat gives
NoQuery ==
    [time_period |-> Undefined, min_volume |-> Absent, max_volume |-> Absent,
     min_market_cap |-> Absent, max_market_cap |-> Absent, min_liquidity |-> Absent,
     protocol |-> Undefined, chain |-> Undefined, search |-> <<>>,
     sort_by |-> Undefined, sort_dir |-> Undefined, limit |-> <<>>, cursor |-> NoCursor]

\* the arguments that the route handler passes to getTokens
RouteArguments(q) ==
    LET filter == [timePeriod |-> q.time_period, minVolume |-> q.min_volume,
                   maxVolume |-> q.max_volume, minMarketCap |-> q.min_market_cap,
                   maxMarketCap |-> q.max_market_cap, minLiquidity |-> q.min_liquidity,
                   protocol |-> q.protocol, chain |-> q.chain, search |-> q.search]
        parsed == ParseInt(q.limit)
    IN [filter |-> IF filter = NoFilter THEN Absent ELSE Some(filter),
        sort |-> IF OrStr(q.sort_by, "") # ""
                 THEN Some([field |-> q.sort_by, direction |-> OrStr(q.sort_dir, "desc"),
                            timePeriod |-> q.time_period])
                 ELSE Absent,
        pagination |-> Some([limit |-> MathMin(IF parsed.nan THEN DefaultPageSize
                                               ELSE OrNum(parsed.n, DefaultPageSize),
                                               MaxPageSize),
                             cursor |-> q.cursor])]

LimitParams == {<<>>, <<"0">>, <<"1">>, <<"2">>, <<"-", "1">>, <<"a">>}
CursorParams ==
    {NoCursor, Base64Encode(<<"1">>), Base64Encode(<<"2">>), Base64Encode(<<"-", "1">>),
     Base64Encode(<<"{", "2", "}">>)}

RouteQueries ==
    {[f EXCEPT !.sort_by = srt[1], !.sort_dir = srt[2], !.limit = lim, !.cursor = cur] :
        f \in {NoQuery, [NoQuery EXCEPT !.min_volume = Some(20000)],
               [NoQuery EXCEPT !.chain = "SOLANA", !.search = <<"P">>]},
        srt \in {<<Undefined, Undefined>>, <<"volume", Undefined>>, <<"market_cap", "asc">>},
        lim \in LimitParams, cur \in CursorParams}

\* GET /api/tokens
GetApiTokens(q) == GetTokensCall(RouteArguments(q))

\* the client asks for the next page with the next_cursor it was given
FollowNextCursor ==
    LET request == [response.request EXCEPT !.pagination =
                        Some([limit |-> response.result.pagination.limit,
                              cursor |-> response.result.pagination.next_cursor])]
    IN /\ loop = NoLoop
       /\ session.pages \in 1..(MaxPages - 1)
       /\ response.result.pagination.next_cursor # NoCursor
       /\ lastOp' = "query"
       /\ cache' = CacheAfterGet(cache, AllKey, now)
       /\ response' = [request |-> request,
                       result |-> GetTokens(cache, tokensMap, now, request.filter,
                                            request.sort, request.pagination)]
       /\ session' = [session EXCEPT !.pages = @ + 1,
                                     !.visited = @ \o response'.result.data]
       /\ UNCHANGED <<tokensMap, previousPrices, previousVolumes, handlers, emitted,
                      announced, heardPrice, newToken, calls, refreshing, pending, loop,
                      lookups, searching, upstream, lastFullRefresh, now, down, rejected,
                      refreshed, initialized, stats, limiter, waiters, retry, periphery>>

\* engines that initialize() loaded with 0 to 3 records
QueryStartups ==
    {[upstream |-> OpenMarket, initialized |-> "resolved", loaded |-> loaded] :
        loaded \in {<<>>,
                    <<DexTransformToToken(DexY, SolPrice, 0)>>,
                    <<DexTransformToToken(DexY, SolPrice, 0),
                      JupiterTransformToToken(JupiterX, JupiterTokenPrice("X"), SolPrice, 0)>>,
                    <<DexTransformToToken(DexY, SolPrice, 0),
                      JupiterTransformToToken(JupiterX, JupiterTokenPrice("X"), SolPrice, 0),
                      DexTransformToToken(DexZ, SolPrice, 0)>>,
                    <<DexTransformToToken(DexZ, SolPrice, 0),
                      GeckoTransformToToken(GeckoY, SolPrice, 0),
                      DexTransformToToken(DexA, SolPrice, 0)>>}}

QueryInit == \E s \in QueryStartups : Loaded(s, {})

QueryNext ==
    \/ \E q \in RouteQueries : GetApiTokens(q)
    \/ FollowNextCursor

QuerySpec == QueryInit /\ [][QueryNext]_vars

-----------------------------------------------------------------------------
(* initialize() and refreshAllData while upstream services fail *)

\* initialize() up to its await of updateSolPrice
Initialize ==
    /\ loop = NoLoop
    /\ initialized = "none"
    /\ initialized' = "rate"
    /\ NoMerge
    /\ UNCHANGED <<handlers, calls, refreshing, pending, loop, lookups, searching, cache,
                   lastFullRefresh, now, rejected, refreshed>>

\* updateSolPrice has returned (getTokenPrices answers with an empty map, so
\* solPrice stays; an error would be caught): initialize() calls refreshAllData
InitializeRefresh ==
    /\ loop = NoLoop
    /\ initialized = "rate"
    /\ initialized' = "refresh"
    /\ calls < MaxCalls
    /\ calls' = calls + 1
    /\ ~refreshing
    /\ refreshing' = TRUE
    /\ pending' = Adapters
    /\ rejected' = {}
    /\ refreshed' = "running"
    /\ NoMerge
    /\ UNCHANGED <<handlers, loop, lookups, searching, cache, lastFullRefresh, now>>

GetStats(map, lastRefresh) ==
    [totalTokens |-> Len(map), lastRefresh |-> lastRefresh, sources |-> GetActiveSources(map)]

\* a getStats call
GetStatsCall ==
    /\ loop = NoLoop
    /\ lastOp' = "stats"
    /\ stats' = GetStats(tokensMap, lastFullRefresh)
    /\ UNCHANGED <<tokensMap, previousPrices, previousVolumes, handlers, emitted, announced,
                   heardPrice, newToken, calls, refreshing, pending, loop, lookups,
                   searching, cache, upstream, lastFullRefresh, now, response, down,
                   rejected, refreshed, initialized, session, limiter, waiters, retry, periphery>>

RefreshStartups ==
    { [upstream |-> OpenMarket, initialized |-> "none", loaded |-> <<>>],
      [upstream |-> OpenMarket, initialized |-> "resolved",
       loaded |-> <<DexTransformToToken(DexY, SolPrice, 0),
                    JupiterTransformToToken(JupiterX, JupiterTokenPrice("X"), SolPrice, 0)>>] }

RefreshInit == \E s \in RefreshStartups : \E dn \in SUBSET Adapters : Loaded(s, dn)

RefreshNext ==
    \/ Initialize
    \/ InitializeRefresh
    \/ RefreshAllData
    \/ \E pair \in upstream.dex : FetchFromDexScreener(pair)
    \/ \E pool \in upstream.gecko : FetchFromGeckoTerminal(pool)
    \/ \E token \in upstream.jupiter : FetchFromJupiter(token)
    \/ \E src \in Adapters : FetchSettled(src)
    \/ RefreshDone
    \/ GetStatsCall
    \/ Tick

RefreshSpec == RefreshInit /\ [][RefreshNext]_vars

-----------------------------------------------------------------------------
(* A refresh over a DexScreener answer that holds a pair no token can be    *)
(* made of.                                                                 *)

MalformedMarket == [dex |-> {DexY, DexW, DexZ}, gecko |-> {GeckoY}, jupiter |-> {JupiterX}]

MalformedStartups ==
    { [upstream |-> MalformedMarket, initialized |-> "resolved", loaded |-> <<>>],
      [upstream |-> MalformedMarket, initialized |-> "resolved",
       loaded |-> <<DexTransformToToken(DexY, SolPrice, 0)>>] }

MalformedInit == \E s \in MalformedStartups : \E dn \in SUBSET Adapters : Loaded(s, dn)

MalformedNext ==
    \/ RefreshAllData
    \/ \E pair \in upstream.dex : FetchFromDexScreener(pair)
    \/ \E pair \in upstream.dex : FetchFromDexScreenerThrows(pair)
    \/ \E pool \in upstream.gecko : FetchFromGeckoTerminal(pool)
    \/ \E token \in upstream.jupiter : FetchFromJupiter(token)
    \/ \E src \in Adapters : FetchSettled(src)
    \/ RefreshDone
    \/ Tick

MalformedSpec == MalformedInit /\ [][MalformedNext]_vars

-----------------------------------------------------------------------------
(* A client paging through GET /api/tokens while a refresh adds records *)

\* the engine holds Y and Z; the next refresh reports them again and, from
\* Jupiter, the address X that the engine has not seen
PagingMarket == [dex |-> {DexZ}, gecko |-> {GeckoY}, jupiter |-> {JupiterX}]

PagingStartups ==
    { [upstream |-> PagingMarket, initialized |-> "resolved",
       loaded |-> <<GeckoTransformToToken(GeckoY, SolPrice, 0),
                    DexTransformToToken(DexZ, SolPrice, 0)>>] }

PagingInit == \E s \in PagingStartups : Loaded(s, {})

\* pages of one record, in the order of the map and by volume
PagingQueries ==
    {[NoQuery EXCEPT !.sort_by = srt, !.limit = <<"1">>] : srt \in {Undefined, "volume"}}

PagingNext ==
    \/ RefreshAllData
    \/ \E pair \in upstream.dex : FetchFromDexScreener(pair)
    \/ \E pool \in upstream.gecko : FetchFromGeckoTerminal(pool)
    \/ \E token \in upstream.jupiter : FetchFromJupiter(token)
    \/ \E src \in Adapters : FetchSettled(src)
    \/ RefreshDone
    \/ \E q \in PagingQueries : GetApiTokens(q)
    \/ FollowNextCursor

PagingSpec == PagingInit /\ [][PagingNext]_vars

-----------------------------------------------------------------------------
(* GET /api/tokens with the filter and sort parameters of the route *)

TimePeriods == {Undefined, "1h", "24h", "7d", "30d"}

\* min_volume and max_volume, each absent or the number parsed
VolumeRanges ==
    {<<Absent, Absent>>, <<Some(20000), Absent>>, <<Absent, Some(2000)>>,
     <<Some(2000), Some(20000)>>, <<Some(20001), Some(20000)>>}

\* the parameters of the other predicates
OtherFilters ==
    {NoQuery,
     [NoQuery EXCEPT !.min_market_cap = Some(600000)],
     [NoQuery EXCEPT !.max_market_cap = Some(600000), !.min_liquidity = Some(7000)],
     [NoQuery EXCEPT !.protocol = "Raydium"],
     [NoQuery EXCEPT !.chain = "SOLANA", !.search = <<"P">>],
     [NoQuery EXCEPT !.search = <<"y">>]}

SortFields ==
    {"volume", "price_change", "market_cap", "liquidity", "transaction_count",
     "created_at", "age"}

FilterSortQueries ==
    {[f EXCEPT !.time_period = period, !.min_volume = range[1], !.max_volume = range[2]] :
        f \in OtherFilters, period \in {Undefined, "1h"}, range \in VolumeRanges}
    \cup {[NoQuery EXCEPT !.time_period = period, !.min_volume = range[1],
                          !.max_volume = range[2]] :
            period \in TimePeriods, range \in VolumeRanges}
    \cup {[NoQuery EXCEPT !.time_period = period, !.sort_by = field, !.sort_dir = dir] :
            period \in TimePeriods, field \in SortFields, dir \in {Undefined, "asc"}}
    \cup {[NoQuery EXCEPT !.min_volume = Some(2000), !.sort_by = field, !.sort_dir = "desc"] :
            field \in SortFields}

FilterSortNext == \E q \in FilterSortQueries : GetApiTokens(q)

FilterSortSpec == QueryInit /\ [][FilterSortNext]_vars

-----------------------------------------------------------------------------
(* getTokenByAddress and searchTokens as their callers see them *)

\* what DexScreener and GeckoTerminal answer to searches and to lookups
OnDemandMarket == [dex |-> {DexA, DexY, DexXEth}, gecko |-> {GeckoY}, jupiter |-> {}]

\* engines holding Y; Y in the cache and X in the map only; X and Z; nothing
OnDemandStartups ==
    { [upstream |-> OnDemandMarket, initialized |-> "resolved",
       loaded |-> <<GeckoTransformToToken(GeckoY, SolPrice, 0)>>],
      [upstream |-> OnDemandMarket, initialized |-> "resolved",
       loaded |-> <<GeckoTransformToToken(GeckoY, SolPrice, 0)>>,
       searched |-> <<DexTransformToToken(DexA, SolPrice, 0)>>],
      [upstream |-> OnDemandMarket, initialized |-> "resolved",
       loaded |-> <<DexTransformToToken(DexA, SolPrice, 0),
                    DexTransformToToken(DexZ, SolPrice, 0)>>],
      [upstream |-> OnDemandMarket, initialized |-> "resolved", loaded |-> <<>>] }

OnDemandInit ==
    \E s \in OnDemandStartups : \E dn \in SUBSET {DexSource, GeckoSource} : Loaded(s, dn)

\* the limit that GET /api/tokens/search passes for limit=1, limit=2, limit=-1
RouteSearchLimits == SearchLimits \cup {-1}

OnDemandNext ==
    \/ Tick
    \/ \E address \in Addresses : GetTokenByAddress(address, TRUE)
    \/ \E address \in Addresses : \E pair \in upstream.dex : GetTokenByAddressFound(address, pair, TRUE)
    \/ \E address \in Addresses : GetTokenByAddressMissed(address, TRUE)
    \/ \E query \in Queries : \E limit \in RouteSearchLimits : SearchTokens(query, limit, TRUE)
    \/ \E pair \in upstream.dex : SearchMergeDex(pair)
    \/ \E pool \in upstream.gecko : SearchMergeGecko(pool)
    \/ SearchDone(TRUE)

OnDemandSpec == OnDemandInit /\ [][OnDemandNext]_vars

-----------------------------------------------------------------------------
(* A call made while the fallback fetch of a getTokenByAddress call is in   *)
(* flight.  Every pair DexScreener answers with has the address asked for   *)
(* as its base token.                                                       *)

RaceMarket == [dex |-> {DexB, DexY}, gecko |-> {GeckoY}, jupiter |-> {}]

\* an engine that holds nothing, or Z only
RaceStartups ==
    { [upstream |-> RaceMarket, initialized |-> "resolved", loaded |-> <<>>],
      [upstream |-> RaceMarket, initialized |-> "resolved",
       loaded |-> <<DexTransformToToken(DexZ, SolPrice, 0)>>] }

LookupRaceInit ==
    \E s \in RaceStartups : \E dn \in SUBSET {DexSource, GeckoSource} :
        \E address \in Addresses : LoadedLooking(s, dn, {address})

LookupRaceSpec == LookupRaceInit /\ [][OnDemandNext]_vars

-----------------------------------------------------------------------------
(* RateLimiter.  Time is counted in ticks; the bucket gains one tick of     *)
(* refill per tick of time and Interval ticks make one token, so that       *)
(* tokens / Interval is this.tokens and Interval ticks are 1000 / refillRate *)
(* milliseconds.  since is Date.now() - this.lastRefill, held at the value   *)
(* from which a refill fills the bucket.                                     *)

\* the variables of the engine and of its callers
engine ==
    <<tokensMap, previousPrices, previousVolumes, handlers, emitted, announced, heardPrice,
      newToken, lastOp, calls, refreshing, pending, loop, lookups, searching, cache,
      upstream, lastFullRefresh, now, response, down, rejected, refreshed, initialized,
      stats, session, periphery>>

RECURSIVE MathPow2(_)
\* Math.pow(2, n)
MathPow2(n) == IF n <= 0 THEN 1 ELSE 2 * MathPow2(n - 1)

\* RateLimiter.refill
Refill(l) ==
    [l EXCEPT !.tokens = MathMin(Capacity * Interval, l.tokens + l.since),
              !.since = 0,
              !.burst = IF MathMin(Capacity * Interval, l.tokens + l.since) = Capacity * Interval
                        THEN 0 ELSE l.burst]

\* a test that lets a part of a token through
HasPartOfToken(l) == l.tokens >= 1

\* this.tokens >= 1
HasToken(l) == l.tokens >= Interval

\* this.tokens--
TakeToken(l) == [l EXCEPT !.tokens = @ - Interval, !.burst = IF @ >= 0 THEN @ + 1 ELSE @]

\* a backoff without the cap at 2^5
Uncapped(failures) == Interval * MathPow2(failures)

\* (1 / this.refillRate) * 1000 * Math.pow(2, Math.min(this.failures, 5))
WaitDelay(failures) == Interval * MathPow2(MathMin(failures, 5))

\* RateLimiter.acquire
Acquire ==
    /\ limiter' = IF HasToken(Refill(limiter))
                  THEN [TakeToken(Refill(limiter)) EXCEPT !.op = "granted"]
                  ELSE [Refill(limiter) EXCEPT !.op = "refused"]
    /\ UNCHANGED <<engine, waiters, retry>>

\* waitForToken as caller c runs it: up to its return or its setTimeout
TryToken(c) ==
    IF HasToken(Refill(limiter))
    THEN /\ limiter' = [TakeToken(Refill(limiter)) EXCEPT !.op = "none"]
         /\ waiters' = [waiters EXCEPT ![c] = [pc |-> "granted", timer |-> 0]]
    ELSE /\ limiter' = [Refill(limiter) EXCEPT !.op = "none"]
         /\ waiters' = [waiters EXCEPT ![c] = [pc |-> "sleeping",
                                               timer |-> WaitDelay(limiter.failures)]]

\* caller c calls waitForToken
WaitForToken(c) ==
    /\ waiters[c].pc = "idle"
    /\ TryToken(c)
    /\ UNCHANGED <<engine, retry>>

\* the timer of caller c has fired: return this.waitForToken()
WakeUp(c) ==
    /\ waiters[c].pc = "sleeping"
    /\ waiters[c].timer = 0
    /\ TryToken(c)
    /\ UNCHANGED <<engine, retry>>

\* waitForToken has returned to caller c
Proceed(c) ==
    /\ waiters[c].pc = "granted"
    /\ waiters' = [waiters EXCEPT ![c] = [pc |-> "idle", timer |-> 0]]
    /\ limiter' = [limiter EXCEPT !.op = "none"]
    /\ UNCHANGED <<engine, retry>>

ReportSuccess ==
    /\ limiter' = [limiter EXCEPT !.failures = 0, !.op = "none"]
    /\ UNCHANGED <<engine, waiters, retry>>

ReportFailure(most) ==
    /\ limiter.failures < most
    /\ limiter' = [limiter EXCEPT !.failures = @ + 1, !.op = "none"]
    /\ UNCHANGED <<engine, waiters, retry>>

\* one tick of time passes; a timer that has run out fires at that time or later
Advance ==
    /\ limiter' = [limiter EXCEPT !.since = MathMin(Capacity * Interval, @ + 1),
                                  !.burst = -1, !.op = "none"]
    /\ waiters' = [c \in Callers |-> [waiters[c] EXCEPT !.timer = MathMax(0, @ - 1)]]
    /\ UNCHANGED <<engine, retry>>

\* one caller of waitForToken beside the callers of acquire
LimiterNext ==
    \/ Acquire
    \/ WaitForToken("trending")
    \/ WakeUp("trending")
    \/ Proceed("trending")
    \/ ReportSuccess
    \/ ReportFailure(MaxFailures)
    \/ Advance

LimiterSpec == Init /\ [][LimiterNext]_vars

\* several callers of waitForToken beside the callers of acquire
ContendedNext ==
    \/ Acquire
    \/ \E c \in Callers : WaitForToken(c)
    \/ \E c \in Callers : WakeUp(c)
    \/ \E c \in Callers : Proceed(c)
    \/ ReportSuccess
    \/ ReportFailure(FewFailures)
    \/ Advance

ContendedSpec == Init /\ [][ContendedNext]_vars

\* time passes and timers fire; nothing is assumed about when callers call
ContendedFairSpec ==
    /\ ContendedSpec
    /\ WF_vars(Advance)
    /\ \A c \in Callers : WF_vars(WakeUp(c))

-----------------------------------------------------------------------------
(* withRetry *)

\* what fn may reject with: two Errors and a value that is no Error
Thrown == {[error |-> TRUE, message |-> "ECONNRESET"], [error |-> TRUE, message |-> "429"], [error |-> FALSE, message |-> "busy"]}

\* what fn may resolve with
Results == {"pairs", "none"}

\* Math.random() * 1000, its ends
Jitters == {0, 999}

\* e instanceof Error ? e : new Error(String(e))
ToError(e) == IF e.error THEN e ELSE [error |-> TRUE, message |-> e.message]

\* a loop that never takes the throw inside the catch
NeverLast(i, maxRetries) == FALSE

\* i === maxRetries
IsLast(i, maxRetries) == i = maxRetries

\* Math.min(baseDelay * Math.pow(2, i), 30000) + Math.random() * 1000
RetryDelay(i, jitter) == MathMin(BaseDelay * MathPow2(i), MaxDelay) + jitter

\* withRetry(fn, {maxRetries, onRetry}) up to the first await fn()
WithRetry(maxRetries, onRetry) ==
    [NoRetry EXCEPT !.pc = "calling", !.maxRetries = maxRetries, !.onRetry = onRetry,
                    !.attempts = 1, !.sent = retry.sent + 1, !.granted = retry.granted]

\* a caller runs withRetry with some maxRetries and no onRetry
CallWithRetry(maxRetries) ==
    /\ retry.pc = "idle"
    /\ retry' = WithRetry(maxRetries, "none")
    /\ UNCHANGED <<engine, limiter, waiters>>

\* fn resolves: return await fn()
FnResolves(v) ==
    /\ retry.pc = "calling"
    /\ retry' = [retry EXCEPT !.pc = "returned", !.result = v]
    /\ UNCHANGED <<engine, limiter, waiters>>

\* fn rejects: the catch block up to its throw or its setTimeout
FnRejects(e, jitter) ==
    /\ retry.pc = "calling"
    /\ IF IsLast(retry.i, retry.maxRetries)
       THEN /\ retry' = [retry EXCEPT !.pc = "rejected", !.failing = e, !.lastErr = ToError(e),
                                      !.thrown = ToError(e)]
            /\ UNCHANGED limiter
       ELSE /\ retry' = [retry EXCEPT !.pc = "sleeping", !.failing = e, !.lastErr = ToError(e),
                                      !.delay = RetryDelay(retry.i, jitter),
                                      !.retried = @ + 1]
            /\ limiter' = IF retry.onRetry = "reportFailure"
                          THEN [limiter EXCEPT !.failures = @ + 1, !.op = "none"]
                          ELSE limiter
    /\ UNCHANGED <<engine, waiters>>

\* the timer of the catch block fires: i++, and the loop or the throw after it
SleepDone ==
    /\ retry.pc = "sleeping"
    /\ retry' = IF retry.i + 1 <= retry.maxRetries
                THEN [retry EXCEPT !.pc = "calling", !.i = @ + 1, !.attempts = @ + 1,
                                   !.sent = @ + 1]
                ELSE [retry EXCEPT !.pc = "rejected", !.i = @ + 1, !.thrown = retry.lastErr]
    /\ UNCHANGED <<engine, limiter, waiters>>

\* the caller has taken the outcome
Settled ==
    /\ retry.pc \in {"returned", "rejected"}
    /\ retry' = NoRetry
    /\ UNCHANGED <<engine, limiter, waiters>>

\* the promise of fn settles
FnSettles ==
    \/ \E v \in Results : FnResolves(v)
    \/ \E e \in Thrown : \E jitter \in Jitters : FnRejects(e, jitter)

RetryNext ==
    \/ \E maxRetries \in 0..MaxRetries : CallWithRetry(maxRetries)
    \/ FnSettles
    \/ SleepDone
    \/ Settled

RetrySpec == Init /\ [][RetryNext]_vars

\* fn settles and timers fire
RetryFairSpec == RetrySpec /\ WF_vars(FnSettles) /\ WF_vars(SleepDone)

-----------------------------------------------------------------------------
(* The private fetch of an adapter: one waitForToken, then withRetry around *)
(* client.get, then reportSuccess or reportFailure.                         *)

\* fetch is called: await this.limiter.waitForToken()
FetchCall ==
    /\ retry.pc = "idle"
    /\ retry.granted < MaxFetches
    /\ waiters["trending"].pc = "idle"
    /\ TryToken("trending")
    /\ UNCHANGED <<engine, retry>>

\* waitForToken has returned: withRetry sends the first request
FetchGranted(onRetry) ==
    /\ waiters["trending"].pc = "granted"
    /\ waiters' = [waiters EXCEPT !["trending"] = [pc |-> "idle", timer |-> 0]]
    /\ limiter' = [limiter EXCEPT !.op = "none"]
    /\ retry' = [WithRetry(AdapterRetries, onRetry) EXCEPT !.granted = retry.granted + 1]
    /\ UNCHANGED engine

\* this.limiter.reportSuccess(); return res.data
FetchReturned ==
    /\ retry.pc = "returned"
    /\ limiter' = [limiter EXCEPT !.failures = 0, !.op = "none"]
    /\ retry' = [NoRetry EXCEPT !.sent = retry.sent, !.granted = retry.granted]
    /\ UNCHANGED <<engine, waiters>>

\* this.limiter.reportFailure(); throw e
FetchThrew ==
    /\ retry.pc = "rejected"
    /\ limiter' = [limiter EXCEPT !.failures = @ + 1, !.op = "none"]
    /\ retry' = [NoRetry EXCEPT !.sent = retry.sent, !.granted = retry.granted]
    /\ UNCHANGED <<engine, waiters>>

AdapterNext ==
    \/ FetchCall
    \/ WakeUp("trending")
    \/ \E onRetry \in {"none", "reportFailure"} : FetchGranted(onRetry)
    \/ FnSettles
    \/ SleepDone
    \/ FetchReturned
    \/ FetchThrew
    \/ Advance

AdapterSpec == Init /\ [][AdapterNext]_vars

-----------------------------------------------------------------------------
(* MemoryCache as its callers see it.  A stored value is an object with the *)
(* properties name and value, each a string or undefined; the entry holds   *)
(* its JSON text, here the set of the "name": "string" pairs of the text.   *)

Properties == {"name", "value"}

\* the values the callers store
CacheValues ==
    {[name |-> "test", value |-> "123"], [name |-> "test", value |-> Undefined]}

\* the keys the callers use
CacheKeys == {TokenKey("X"), AllKey}

\* the patterns keys() is called with: 'token:*', 'tokens:*' and '*'
Patterns == {"token", "tokens", "*"}

\* the ttl arguments, in seconds; none is config.cacheTtl
Ttls == {Absent, Some(2)}

\* JSON.stringify(value): a property that is undefined is left out
JsonStringify(value) == {<<p, value[p]>> : p \in {q \in Properties : value[q] # Undefined}}

\* JSON.parse(text), read property by property
JsonParse(text) ==
    [p \in Properties |->
        IF \E pair \in text : pair[1] = p
        THEN (CHOOSE pair \in text : pair[1] = p)[2]
        ELSE Undefined]

\* what get returns: null, or the parsed value
NullValue == [found |-> FALSE, value |-> [p \in Properties |-> Undefined]]
Value(v) == [found |-> TRUE, value |-> v]

\* ttl = config.cacheTtl
TtlOf(ttl) == IF ttl = Absent THEN CacheTtl ELSE The(ttl)

\* a counter that books every get as a hit
AlwaysHit(counters, hit) == [counters EXCEPT !.hits = @ + 1]

\* this.hits++ or this.misses++
Count(counters, hit) ==
    IF hit THEN [counters EXCEPT !.hits = @ + 1] ELSE [counters EXCEPT !.misses = @ + 1]

\* the entries of c without key
Without(c, key) == [k \in DOMAIN c \ {key} |-> c[k]]

\* the entries of c that have not expired at t
Unexpired(c, t) == [k \in {x \in DOMAIN c : ~(t > c[x].expiry)} |-> c[k]]

\* hitRate as the fraction it is; 0 when total is 0
HitRate(counters) ==
    IF counters.hits + counters.misses # 0
    THEN [num |-> counters.hits, den |-> counters.hits + counters.misses]
    ELSE [num |-> 0, den |-> 1]

\* the variables no cache operation touches
beyondCache ==
    <<tokensMap, previousPrices, previousVolumes, handlers, emitted, announced, heardPrice,
      newToken, calls, refreshing, pending, loop, lookups, searching, upstream,
      lastFullRefresh, down, rejected, refreshed, initialized, stats, session, limiter,
      waiters, retry, sockets, scheduler>>

\* a cache call that returns nothing
Done ==
    /\ lastOp' = "other"
    /\ UNCHANGED <<beyondCache, now, response>>

\* a cache call returns result to its caller
Answers(op, key, result) ==
    /\ lastOp' = op
    /\ response' = [request |-> [op |-> op, key |-> key], result |-> result]
    /\ UNCHANGED <<beyondCache, now>>

\* MemoryCache.get
MemoryCacheGet(key) ==
    /\ history.gets < MaxGets
    /\ cache' = CacheAfterGet(cache, key, now)
    /\ cacheStats' = Count(cacheStats, CacheHit(cache, key, now))
    /\ history' = [history EXCEPT !.gets = @ + 1]
    /\ Answers("get", key,
               IF CacheHit(cache, key, now) THEN Value(JsonParse(cache[key].value))
               ELSE NullValue)

\* MemoryCache.set
MemoryCacheSet(key, value, ttl) ==
    /\ cache' = CacheSet(cache, key, JsonStringify(value), TtlOf(ttl), now)
    /\ history' = [history EXCEPT !.written =
                       [k \in DOMAIN @ \cup {key} |->
                           IF k = key THEN [value |-> value, at |-> now, ttl |-> TtlOf(ttl)]
                           ELSE @[k]]]
    /\ Done
    /\ UNCHANGED cacheStats

\* MemoryCache.delete
MemoryCacheDelete(key) ==
    /\ cache' = Without(cache, key)
    /\ history' = [history EXCEPT !.written = Without(@, key)]
    /\ Done
    /\ UNCHANGED cacheStats

\* MemoryCache.exists
MemoryCacheExists(key) ==
    /\ cache' = CacheAfterGet(cache, key, now)
    /\ Done
    /\ UNCHANGED <<cacheStats, history>>

\* MemoryCache.keys
MemoryCacheKeys(pattern) ==
    /\ lastOp' = "keys"
    /\ UNCHANGED <<beyondCache, now, response, cache, cacheStats, history>>

\* MemoryCache.flush
MemoryCacheFlush ==
    /\ cache' = [k \in {} |-> 0]
    /\ cacheStats' = NoHits
    /\ history' = NoHistory
    /\ Done

\* MemoryCache.getStats
MemoryCacheGetStats ==
    /\ lastOp' = "getStats"
    /\ response' = [request |-> [op |-> "getStats", key |-> AllKey],
                    result |-> [hits |-> cacheStats.hits, misses |-> cacheStats.misses,
                                hitRate |-> HitRate(cacheStats),
                                size |-> Cardinality(DOMAIN cache)]]
    /\ UNCHANGED <<beyondCache, now, cache, cacheStats, history>>

\* the callback of startCleanup
Cleanup ==
    /\ cache' = Unexpired(cache, now)
    /\ Done
    /\ UNCHANGED <<cacheStats, history>>

\* time passes, in seconds
CacheClock ==
    /\ now < MaxCacheTime
    /\ now' = now + 1
    /\ lastOp' = "other"
    /\ UNCHANGED <<beyondCache, cache, response, cacheStats, history>>

MemoryCacheNext ==
    \/ \E key \in CacheKeys : MemoryCacheGet(key)
    \/ \E key \in CacheKeys : \E value \in CacheValues : \E ttl \in Ttls : MemoryCacheSet(key, value, ttl)
    \/ \E key \in CacheKeys : MemoryCacheDelete(key)
    \/ \E key \in CacheKeys : MemoryCacheExists(key)
    \/ \E pattern \in Patterns : MemoryCacheKeys(pattern)
    \/ MemoryCacheFlush
    \/ MemoryCacheGetStats
    \/ Cleanup
    \/ CacheClock

MemoryCacheSpec == Init /\ [][MemoryCacheNext]_vars

-----------------------------------------------------------------------------
(* RedisCache.  cache holds what the server stores; a command of the client *)
(* (get, setex, del, exists, keys) fails when the connection does, which    *)
(* each call draws as fails.                                                *)

\* the keys the server still holds at t: setex expires a key ttl seconds after the write
Live(c, t) == {k \in DOMAIN c : t < c[k].expiry}

\* a cache call has returned result, or has thrown, to its caller
Replies(op, key, fails, result, threw) ==
    /\ lastOp' = "redis"
    /\ response' = [request |-> [op |-> op, key |-> key, fails |-> fails],
                    result |-> [threw |-> threw, found |-> result.found, value |-> result.value]]
    /\ UNCHANGED <<beyondCache, now, history>>

\* RedisCache.get
RedisGet(key, fails) ==
    /\ cacheStats.hits + cacheStats.misses < MaxGets
    /\ cacheStats' = Count(cacheStats, ~fails /\ key \in Live(cache, now))
    /\ Replies("get", key, fails,
               IF ~fails /\ key \in Live(cache, now) THEN Value(JsonParse(cache[key].value))
               ELSE NullValue, FALSE)
    /\ UNCHANGED cache

\* RedisCache.set
RedisSet(key, value, ttl, fails) ==
    /\ cache' = IF fails THEN cache
                ELSE CacheSet(cache, key, JsonStringify(value), TtlOf(ttl), now)
    /\ Replies("set", key, fails, NullValue, FALSE)
    /\ UNCHANGED cacheStats

\* RedisCache.delete
RedisDelete(key, fails) ==
    /\ cache' = IF fails THEN cache ELSE Without(cache, key)
    /\ Replies("delete", key, fails, NullValue, FALSE)
    /\ UNCHANGED cacheStats

\* RedisCache.exists
RedisExists(key, fails) ==
    /\ Replies("exists", key, fails,
               [found |-> ~fails /\ key \in Live(cache, now), value |-> NullValue.value], FALSE)
    /\ UNCHANGED <<cache, cacheStats>>

\* RedisCache.keys('*'): how many keys it returned
RedisKeys(fails) ==
    /\ Replies("keys", AllKey, fails,
               [found |-> ~fails /\ Live(cache, now) # {}, value |-> NullValue.value], FALSE)
    /\ UNCHANGED <<cache, cacheStats>>

\* RedisCache.flush: keys('*'), which catches its failure, then del outside any try
RedisFlush(keysFails, delFails) ==
    LET keys == IF keysFails THEN {} ELSE Live(cache, now)
        threw == keys # {} /\ delFails
    IN /\ cache' = IF keys # {} /\ ~delFails THEN [k \in {} |-> 0] ELSE cache
       /\ cacheStats' = IF threw THEN cacheStats ELSE NoHits
       /\ Replies("flush", AllKey, keysFails \/ delFails, NullValue, threw)

RedisNext ==
    \/ \E key \in CacheKeys : \E fails \in BOOLEAN : RedisGet(key, fails)
    \/ \E key \in CacheKeys : \E value \in CacheValues : \E ttl \in Ttls : \E fails \in BOOLEAN : RedisSet(key, value, ttl, fails)
    \/ \E key \in CacheKeys : \E fails \in BOOLEAN : RedisDelete(key, fails)
    \/ \E key \in CacheKeys : \E fails \in BOOLEAN : RedisExists(key, fails)
    \/ \E fails \in BOOLEAN : RedisKeys(fails)
    \/ \E keysFails, delFails \in BOOLEAN : RedisFlush(keysFails, delFails)
    \/ CacheClock

RedisSpec == Init /\ [][RedisNext]_vars

-----------------------------------------------------------------------------
(* WebSocketServer: connections, subscriptions and broadcasts.  A message   *)
(* is the socket it was emitted on, its event and what it carries.          *)

SocketIds == {"s1", "s2"}

\* the records the broadcasts carry
TokenA == DexTransformToToken(DexA, SolPrice, 0)
TokenY == DexTransformToToken(DexY, SolPrice, 0)
TokenZ == DexTransformToToken(DexZ, SolPrice, 0)
Batches == {<<TokenA, TokenY>>, <<TokenZ>>, <<TokenY, TokenZ, TokenA>>}

\* the filters a client subscribes with
ClientFilters ==
    {[NoFilter EXCEPT !.minVolume = Some(20000), !.timePeriod = "1h"],
     [NoFilter EXCEPT !.minMarketCap = Some(600000), !.minLiquidity = Some(6000)],
     [NoFilter EXCEPT !.minLiquidity = Some(8000)],
     [NoFilter EXCEPT !.maxMarketCap = Some(600000)],
     [NoFilter EXCEPT !.protocol = "Raydium"],
     [NoFilter EXCEPT !.chain = "ethereum"],
     [NoFilter EXCEPT !.search = <<"P">>]}

\* subscription: {}
NoSubscription == [filters |-> Absent, tokens |-> Absent]

\* the payloads of a subscribe event
Subscriptions ==
    {[filters |-> f, tokens |-> t] :
        f \in {Absent} \cup {Some(g) : g \in ClientFilters},
        t \in {Absent, Some(<<>>), Some(<<"X">>)}}

Message(id, event, address, tokens) ==
    [to |-> id, event |-> event, address |-> address, tokens |-> tokens]

\* Array.prototype.includes
ArrayIncludes(xs, x) == \E k \in 1..Len(xs) : xs[k] = x

\* a test that lets every client receive every update
ReceivesAll(subscription, tokenAddress) == TRUE

\* shouldReceiveUpdate
ShouldReceiveUpdate(subscription, tokenAddress) ==
    IF subscription.tokens = Absent \/ Len(The(subscription.tokens)) = 0
    THEN TRUE
    ELSE ArrayIncludes(The(subscription.tokens), tokenAddress)

\* `x && ...` for an optional number
Truthy(opt) == opt # Absent /\ The(opt) # 0

\* the predicate of filterTokensForClient
PassesClient(token, subscription) ==
    /\ ~(/\ subscription.tokens # Absent
         /\ Len(The(subscription.tokens)) > 0
         /\ ~ArrayIncludes(The(subscription.tokens), token.token_address))
    /\ subscription.filters # Absent =>
           LET filters == The(subscription.filters)
           IN /\ ~(Truthy(filters.minVolume) /\ token.volume_usd < The(filters.minVolume))
              /\ ~(Truthy(filters.maxVolume) /\ token.volume_usd > The(filters.maxVolume))
              /\ ~(Truthy(filters.minMarketCap)
                      /\ token.market_cap_usd < The(filters.minMarketCap))
              /\ ~(Truthy(filters.minLiquidity)
                      /\ token.liquidity_usd < The(filters.minLiquidity))
              /\ ~(/\ OrStr(filters.protocol, "") # ""
                   /\ ToLowerId(token.protocol) # ToLowerId(filters.protocol))

\* filterTokensForClient
FilterTokensForClient(tokens, subscription) ==
    IF subscription.filters = Absent /\ subscription.tokens = Absent
    THEN tokens
    ELSE SelectSeq(tokens, LAMBDA token : PassesClient(token, subscription))

\* everything no method of the server touches
beyondSockets ==
    <<tokensMap, previousPrices, previousVolumes, handlers, emitted, announced,
      heardPrice, newToken, lastOp, calls, refreshing, pending, loop, lookups, searching,
      cache, upstream, lastFullRefresh, now, response, down, rejected, refreshed,
      initialized, stats, session, limiter, waiters, retry, cacheStats, history, scheduler>>

\* the 'connection' event
HandleConnection(id) ==
    /\ id \notin DOMAIN sockets.clients
    /\ sockets.connectionCount < MaxConnections
    /\ sockets' = [sockets EXCEPT
                      !.connectionCount = @ + 1,
                      !.clients = [i \in DOMAIN @ \cup {id} |->
                                     IF i = id THEN NoSubscription ELSE @[i]],
                      !.delivered = {Message(id, "connected", "", <<>>)}]
    /\ UNCHANGED beyondSockets

\* the 'subscribe' event of a connected socket
HandleSubscribe(id, data) ==
    /\ id \in DOMAIN sockets.clients
    /\ sockets' = [sockets EXCEPT
                      !.clients[id] = data,
                      !.delivered = {Message(id, "subscribed", "", <<>>)},
                      !.silenced = @ \ {id}]
    /\ UNCHANGED beyondSockets

\* the 'unsubscribe' event of a connected socket
HandleUnsubscribe(id) ==
    /\ id \in DOMAIN sockets.clients
    /\ sockets' = [sockets EXCEPT
                      !.clients[id] = NoSubscription,
                      !.delivered = {Message(id, "unsubscribed", "", <<>>)},
                      !.silenced = @ \cup {id}]
    /\ UNCHANGED beyondSockets

\* the 'disconnect' event
HandleDisconnect(id) ==
    /\ id \in DOMAIN sockets.clients
    /\ sockets' = [sockets EXCEPT
                      !.clients = [i \in DOMAIN @ \ {id} |-> @[i]],
                      !.delivered = {},
                      !.silenced = @ \ {id}]
    /\ UNCHANGED beyondSockets

\* the messages the loop of broadcastPriceUpdate and of broadcastVolumeSpike sends
ToSubscribers(event, address) ==
    {Message(id, event, address, <<>>) :
        id \in {i \in DOMAIN sockets.clients :
                   ShouldReceiveUpdate(sockets.clients[i], address)}}

BroadcastPriceUpdate(data) ==
    /\ sockets' = [sockets EXCEPT
                      !.delivered = ToSubscribers("price_update", data.token_address)]
    /\ UNCHANGED beyondSockets

BroadcastVolumeSpike(data) ==
    /\ sockets' = [sockets EXCEPT
                      !.delivered = ToSubscribers("volume_spike", data.token_address)]
    /\ UNCHANGED beyondSockets

\* io.emit(event, message): every connected socket
IoEmit(event, tokens) == {Message(id, event, "", tokens) : id \in DOMAIN sockets.clients}

BroadcastNewToken(token) ==
    /\ sockets' = [sockets EXCEPT !.delivered = IoEmit("new_token", <<token>>)]
    /\ UNCHANGED beyondSockets

BroadcastError ==
    /\ sockets' = [sockets EXCEPT !.delivered = IoEmit("error", <<>>)]
    /\ UNCHANGED beyondSockets

\* the messages the loop of broadcastBatchUpdate sends
BatchMessages(tokens) ==
    {Message(id, "batch_update", "", FilterTokensForClient(tokens, sockets.clients[id])) :
        id \in {i \in DOMAIN sockets.clients :
                   Len(FilterTokensForClient(tokens, sockets.clients[i])) > 0}}

BroadcastBatchUpdate(tokens) ==
    /\ sockets' = [sockets EXCEPT !.delivered = BatchMessages(tokens)]
    /\ UNCHANGED beyondSockets

\* shutdown(): every socket is told, disconnected and forgotten
Shutdown ==
    /\ sockets' = [sockets EXCEPT
                      !.clients = [i \in {} |-> 0],
                      !.delivered = IoEmit("server_shutdown", <<>>),
                      !.silenced = {}]
    /\ UNCHANGED beyondSockets

SocketNext ==
    \/ \E id \in SocketIds : HandleConnection(id)
    \/ \E id \in SocketIds : \E data \in Subscriptions : HandleSubscribe(id, data)
    \/ \E id \in SocketIds : HandleUnsubscribe(id)
    \/ \E id \in SocketIds : HandleDisconnect(id)
    \/ \E address \in Addresses : BroadcastPriceUpdate([token_address |-> address])
    \/ \E address \in Addresses : BroadcastVolumeSpike([token_address |-> address])
    \/ \E token \in {TokenA, TokenY} : BroadcastNewToken(token)
    \/ \E tokens \in Batches : BroadcastBatchUpdate(tokens)
    \/ BroadcastError
    \/ Shutdown

SocketSpec == Init /\ [][SocketNext]_vars

-----------------------------------------------------------------------------
(* UpdateScheduler: start, stop, getStatus and the callbacks of its jobs.   *)
(* A job field is TRUE when it holds a task; tasks counts, per job, the     *)
(* cron tasks that were scheduled and not stopped.  The SOL price is the    *)
(* same throughout, so the callback of the third job changes nothing here.  *)

\* everything neither start nor stop touches
beyondScheduler ==
    <<tokensMap, previousPrices, previousVolumes, handlers, emitted, announced,
      heardPrice, newToken, lastOp, calls, refreshing, pending, loop, lookups, searching,
      cache, upstream, lastFullRefresh, now, response, down, rejected, refreshed,
      initialized, stats, session, limiter, waiters, retry, cacheStats, history, sockets>>

\* a test that never finds the scheduler running
NeverRunning(s) == FALSE

\* if (this.isRunning)
AlreadyRunning(s) == s.isRunning

\* start()
Start ==
    /\ scheduler' =
           IF AlreadyRunning(scheduler)
           THEN [scheduler EXCEPT !.op = "start", !.returnedEarly = TRUE]
           ELSE [scheduler EXCEPT
                    !.jobs = [name \in JobNames |-> TRUE],
                    !.tasks = [name \in JobNames |-> @[name] + 1],
                    !.isRunning = TRUE,
                    !.op = "start", !.returnedEarly = FALSE]
    /\ UNCHANGED beyondScheduler

\* stop(): job?.stop() stops the task a field holds
Stop ==
    /\ scheduler' =
           IF ~scheduler.isRunning
           THEN [scheduler EXCEPT !.op = "stop", !.returnedEarly = TRUE]
           ELSE [scheduler EXCEPT
                    !.tasks = [name \in JobNames |->
                                  IF scheduler.jobs[name] THEN @[name] - 1 ELSE @[name]],
                    !.jobs = [name \in JobNames |-> FALSE],
                    !.isRunning = FALSE,
                    !.op = "stop", !.returnedEarly = FALSE]
    /\ UNCHANGED beyondScheduler

\* getStatus()
GetStatus(s) ==
    [running |-> s.isRunning,
     jobs |-> <<[name |-> "priceUpdate", running |-> s.jobs["priceUpdate"]],
                [name |-> "fullRefresh", running |-> s.jobs["fullRefresh"]],
                [name |-> "solPriceUpdate", running |-> s.jobs["solPriceUpdate"]]>>]

\* the callback of the price job: runPriceUpdate
RunPriceUpdate ==
    /\ scheduler.tasks["priceUpdate"] > 0
    /\ loop = NoLoop
    /\ LET tokens == MapValues(tokensMap)
       IN IF Len(tokens) > 0
          THEN BroadcastBatchUpdate(Slice(tokens, Num(0), Num(PriceBatch)))
          ELSE UNCHANGED vars

\* runFullRefresh up to its await of refreshAllData
FullRefreshCall ==
    /\ ~scheduler.awaiting
    /\ loop = NoLoop
    /\ calls < MaxCalls
    /\ calls' = calls + 1
    /\ ~refreshing
    /\ refreshing' = TRUE
    /\ pending' = Adapters
    /\ rejected' = {}
    /\ refreshed' = "running"
    /\ lastOp' = "other"
    /\ scheduler' = [scheduler EXCEPT !.awaiting = TRUE]
    /\ UNCHANGED <<tokensMap, previousPrices, previousVolumes, handlers, emitted, announced,
                   heardPrice, newToken, loop, lookups, searching, cache, upstream,
                   lastFullRefresh, now, response, down, initialized, stats, session,
                   limiter, waiters, retry, cacheStats, history, sockets>>

\* the callback of the refresh job
RunFullRefresh ==
    /\ scheduler.tasks["fullRefresh"] > 0
    /\ FullRefreshCall

\* triggerRefresh()
TriggerRefresh == FullRefreshCall

\* runFullRefresh after its await: the batch of every token, or the error
\* when refreshAllData threw
FullRefreshDone ==
    /\ scheduler.awaiting
    /\ ~refreshing
    /\ loop = NoLoop
    /\ scheduler' = [scheduler EXCEPT !.awaiting = FALSE]
    /\ sockets' = [sockets EXCEPT
                      !.delivered = IF refreshed = "rejected" THEN IoEmit("error", <<>>)
                                    ELSE BatchMessages(MapValues(tokensMap))]
    /\ UNCHANGED <<tokensMap, previousPrices, previousVolumes, handlers, emitted, announced,
                   heardPrice, newToken, lastOp, calls, refreshing, pending, loop, lookups,
                   searching, cache, upstream, lastFullRefresh, now, response, down,
                   rejected, refreshed, initialized, stats, session, limiter, waiters,
                   retry, cacheStats, history>>

\* the sockets that connect while the scheduler is watched
Listeners == {"s1"}

SchedulerNext ==
    \/ Start
    \/ Stop
    \/ RunPriceUpdate
    \/ RunFullRefresh
    \/ TriggerRefresh
    \/ FullRefreshDone
    \/ \E pair \in upstream.dex : FetchFromDexScreener(pair)
    \/ \E pool \in upstream.gecko : FetchFromGeckoTerminal(pool)
    \/ \E token \in upstream.jupiter : FetchFromJupiter(token)
    \/ \E src \in Adapters : FetchSettled(src)
    \/ RefreshDone
    \/ \E id \in Listeners : HandleConnection(id)
    \/ \E id \in Listeners : HandleDisconnect(id)

SchedulerSpec == Init /\ [][SchedulerNext]_vars

-----------------------------------------------------------------------------
(* Properties of mergeToken *)

\* the numeric fields of a Token other than transaction_count
NumericFields ==
    {"price_sol", "price_usd", "market_cap_sol", "market_cap_usd", "volume_sol",
     "volume_usd", "liquidity_sol", "liquidity_usd", "price_1hr_change",
     "price_24hr_change", "price_7d_change", "volume_1hr", "volume_24hr", "volume_7d"}

SeqToSet(xs) == {xs[i] : i \in 1..Len(xs)}

\* this step is a mergeToken call for an address that is not in the map
Inserting ==
    lastOp' = "merge" /\ ~MapHas(tokensMap, newToken'.token_address)

\* this step is a mergeToken call for an address that is in the map
Merging ==
    lastOp' = "merge" /\ MapHas(tokensMap, newToken'.token_address)

\* the record of the merged address before and after this step
Existing == MapGet(tokensMap, newToken'.token_address)
Merged == MapGet(tokensMap', newToken'.token_address)

EventsOf(es, type) == {k \in 1..Len(es) : es[k].type = type}

\* the latest step was a mergeToken call for an address that was in the map:
\* only such a call writes the address into previousPrices
MergedIntoExisting ==
    lastOp = "merge" /\ newToken.token_address \in DOMAIN previousPrices

\* the record the latest mergeToken call left in the map
Stored == MapGet(tokensMap, newToken.token_address)

C2_PreferNonZero ==
    [][Merging =>
          \A f \in NumericFields :
              Merged[f] = IF newToken'[f] # 0 THEN newToken'[f] ELSE Existing[f]]_vars

\* a record without a price, with a volume, was merged into a priced record
C2_Witness ==
    /\ MergedIntoExisting
    /\ newToken.price_usd = 0
    /\ Stored.price_usd # 0
    /\ newToken.volume_24hr # 0
    /\ Stored.volume_24hr = newToken.volume_24hr
    /\ Stored.liquidity_usd # 0

\* C3: a numeric field of a stored record that is non-zero is non-zero after
\* every step, whatever a later incoming record reports.
C3_NeverBackToZero ==
    [][\A i \in 1..Len(tokensMap) :
          \A f \in NumericFields \cup {"transaction_count"} :
              tokensMap[i].value[f] # 0 =>
                  /\ MapHas(tokensMap', tokensMap[i].key)
                  /\ MapGet(tokensMap', tokensMap[i].key)[f] # 0]_vars

\* the latest incoming record reported no market cap, liquidity or
\* transactions for an address whose record has them
C3_Witness ==
    /\ MergedIntoExisting
    /\ newToken.market_cap_usd = 0 /\ Stored.market_cap_usd # 0
    /\ newToken.liquidity_sol = 0 /\ Stored.liquidity_sol # 0
    /\ newToken.transaction_count = 0 /\ Stored.transaction_count # 0

\* C4: a merge sets sources to the union of the existing and the incoming
\* sources, without a duplicate entry; the sources of an address never lose
\* a member.
C4_SourcesUnion ==
    /\ [](\A i \in 1..Len(tokensMap) :
             \A j, k \in 1..Len(tokensMap[i].value.sources) :
                 tokensMap[i].value.sources[j] = tokensMap[i].value.sources[k] => j = k)
    /\ [][/\ Merging =>
                SeqToSet(Merged.sources) =
                    SeqToSet(Existing.sources) \cup SeqToSet(newToken'.sources)
          /\ \A i \in 1..Len(tokensMap) :
                /\ MapHas(tokensMap', tokensMap[i].key)
                /\ SeqToSet(tokensMap[i].value.sources) \subseteq
                       SeqToSet(MapGet(tokensMap', tokensMap[i].key).sources)]_vars

\* a record carries all three sources
C4_Witness ==
    /\ MergedIntoExisting
    /\ SeqToSet(Stored.sources) = Adapters

\* C5: after a merge into an existing record the transaction count is the
\* larger of the existing and the incoming count; the count of an address
\* never decreases.
C5_TransactionCountMax ==
    [][/\ Merging =>
             /\ Merged.transaction_count >= Existing.transaction_count
             /\ Merged.transaction_count >= newToken'.transaction_count
             /\ Merged.transaction_count \in
                    {Existing.transaction_count, newToken'.transaction_count}
       /\ \A i \in 1..Len(tokensMap) :
             /\ MapHas(tokensMap', tokensMap[i].key)
             /\ MapGet(tokensMap', tokensMap[i].key).transaction_count >=
                    tokensMap[i].value.transaction_count]_vars

\* the latest incoming record reported fewer transactions than the record has
C5_Witness ==
    /\ MergedIntoExisting
    /\ newToken.transaction_count > 0
    /\ newToken.transaction_count < Stored.transaction_count

\* two records that differ at most in last_updated
SameButUpdated(a, b) == [a EXCEPT !.last_updated = 0] = [b EXCEPT !.last_updated = 0]

\* C6: merging the same incoming record twice in succession, nothing in
\* between, leaves every field of the stored record other than last_updated
\* (sources included) as the first merge left it, and the second merge emits
\* no price-update, volume-spike or new-record event.
C6_MergeTwice ==
    [][(lastOp = "merge" /\ lastOp' = "merge" /\ SameButUpdated(newToken', newToken)) =>
          /\ SameButUpdated(Merged, Existing)
          /\ Merged.sources = Existing.sources
          /\ emitted' = <<>>]_vars

\* the price / 24h volume previously observed for the address being merged
ObservedPrice ==
    IF NumGet(previousPrices, newToken'.token_address) # 0
    THEN previousPrices[newToken'.token_address]
    ELSE Existing.price_usd

ObservedVolume ==
    IF NumGet(previousVolumes, newToken'.token_address) # 0
    THEN previousVolumes[newToken'.token_address]
    ELSE Existing.volume_24hr

C9_PreviousFollowsMerge ==
    [][Merging =>
          /\ NumGet(previousPrices', newToken'.token_address) = Merged.price_usd
          /\ NumGet(previousVolumes', newToken'.token_address) = Merged.volume_24hr
          /\ (/\ (Merged.price_usd - Existing.price_usd) * 100 < Existing.price_usd
              /\ (Existing.price_usd - Merged.price_usd) * 100 < Existing.price_usd)
             => EventsOf(emitted', "price_update") = {}]_vars

\* the price is 1% or more away from the last price a handler was told, the
\* latest merge moved it and emitted nothing
C9_Witness ==
    /\ MergedIntoExisting
    /\ handlers.onPriceUpdate
    /\ NumGet(heardPrice, newToken.token_address) > 0
    /\ (Stored.price_usd - heardPrice[newToken.token_address]) * 100
           >= heardPrice[newToken.token_address]
    /\ newToken.price_usd = Stored.price_usd
    /\ previousPrices[newToken.token_address] = Stored.price_usd
    /\ emitted = <<>>

-----------------------------------------------------------------------------
(* Properties of getTokens *)

\* the step is a getTokens call without filter or pagination
QueryingAll ==
    /\ lastOp' = "query"
    /\ response'.request.filter = Absent
    /\ response'.request.pagination = Absent

\* the latest step was a getTokens call without filter or pagination
QueriedAll ==
    /\ lastOp = "query"
    /\ response.request.filter = Absent
    /\ response.request.pagination = Absent

\* the records of tokens, as a set
Listed(tokens) == {tokens[i] : i \in 1..Len(tokens)}

-----------------------------------------------------------------------------
(* Properties of refreshAllData and initialize under upstream failures *)

\* the fetch of adapter src can merge a record in this state
CanMerge(src) ==
    CASE src = DexSource -> ENABLED (\E pair \in upstream.dex : FetchFromDexScreener(pair))
      [] src = GeckoSource -> ENABLED (\E pool \in upstream.gecko : FetchFromGeckoTerminal(pool))
      [] src = JupiterSource -> ENABLED (\E token \in upstream.jupiter : FetchFromJupiter(token))

\* C12: refreshAllData never throws, with 0, 1, 2 or 3 adapters failing: it
\* ends only once all three fetches have settled, and then resolves; while
\* one adapter's fetch is pending and its upstream answers, its records can
\* be merged whatever happened to the other two; only adapters whose
\* upstream answers merge records, so with all three failing the canonical
\* set is left as it was.
C12_RefreshSettlesAll ==
    /\ [](\A src \in pending \ down : (refreshing /\ loop = NoLoop) => CanMerge(src))
    /\ [][/\ refreshed' # "rejected"
          /\ (refreshed = "running" /\ refreshed' # "running") =>
               /\ pending = {}
               /\ refreshed' = "resolved"
               /\ lastFullRefresh' = now
          /\ lastOp' = "merge" => loop'.src \notin down \cup rejected
          /\ (refreshing /\ down = Adapters) => tokensMap' = tokensMap]_vars

\* a refresh has resolved although GeckoTerminal's fetch rejected, and the
\* records of DexScreener are in the set
C12_Witness ==
    /\ refreshed = "resolved"
    /\ down = {GeckoSource}
    /\ rejected = {GeckoSource}
    /\ MapHas(tokensMap, "X")
    /\ MapGet(tokensMap, "X").sources = <<DexSource>>

\* the sources named by the records of map, as a set
SourcesIn(map) == UNION {SeqToSet(map[i].value.sources) : i \in 1..Len(map)}

\* C13 as stated: after a refreshAllData during which 2 of the 3 adapters
\* failed and the surviving one produced a record, getStats reports exactly
\* 1 active source.
C13_OneActiveSource ==
    (/\ lastOp = "stats"
     /\ Cardinality(down) = 2
     /\ calls = MaxCalls
     /\ refreshed = "resolved"
     /\ Adapters \ down \subseteq SourcesIn(tokensMap)) => Len(stats.sources) = 1

\* C13, amended: a refreshAllData during which 2 of the 3 adapters fail
\* resolves, only the surviving adapter merges records and each is stored;
\* getStats reports the distinct sources of the records in the canonical
\* set.  After the refresh of initialize() that is the surviving adapter
\* alone if it produced a record and no source if it produced none; after
\* a later refresh the sources of earlier records stay listed.
C13_StatsListSourcesOfSet ==
    [][/\ lastOp' = "stats" =>
            /\ SeqToSet(stats'.sources) = SourcesIn(tokensMap)
            /\ Cardinality(SeqToSet(stats'.sources)) = Len(stats'.sources)
            /\ stats'.totalTokens = Len(tokensMap)
       /\ Cardinality(down) = 2 =>
            /\ refreshed' # "rejected"
            /\ lastOp' = "merge" =>
                 /\ {loop'.src} = Adapters \ down
                 /\ loop'.src \in SeqToSet(Merged.sources)
                 /\ SeqToSet(newToken'.sources) = {loop'.src}
            /\ (initialized = "refresh" /\ initialized' # "refresh") =>
                 /\ initialized' = "resolved"
                 /\ SourcesIn(tokensMap') =
                        IF tokensMap' = <<>> THEN {} ELSE Adapters \ down]_vars

\* getStats after a first refresh that only GeckoTerminal survived
C13_Witness ==
    /\ lastOp = "stats"
    /\ down = {DexSource, JupiterSource}
    /\ calls = MaxCalls
    /\ refreshed = "resolved"
    /\ stats.sources = <<GeckoSource>>
    /\ stats.totalTokens = 1

\* C14: once a refreshAllData call has ended, every adapter whose upstream
\* calls failed until their retries were exhausted is among the adapters
\* whose fetch rejected, and so is not counted in successCount.
C14_FailedAdaptersRejected ==
    (refreshed = "resolved" /\ calls = MaxCalls) => down \subseteq rejected

\* C15: when every adapter fails during the refresh of initialize(), so that
\* no record is loaded, initialize() does not resolve: it rejects.
C15_InitializeRejectsWithoutData ==
    (/\ down = Adapters
     /\ initialized \in {"resolved", "rejected"}
     /\ tokensMap = <<>>) => initialized = "rejected"

-----------------------------------------------------------------------------
(* Properties of filtering, sorting and pagination *)

\* the offset that a cursor stands for: 0 without cursor, NaN if undecodable
OffsetOf(cursor) == IF cursor = NoCursor THEN Num(0) ELSE ParseInt(Base64Decode(cursor))

\* C16: getTokens filters, then sorts, then paginates.  total_count is the
\* number of records of the list read that satisfy the filter, whatever
\* limit and cursor are; the list paginated holds exactly those records,
\* in the order of the comparator when a sort is given (equal ones in the
\* order read) and in the order read otherwise; and for a cursor that
\* stands for an offset >= 0 and a limit >= 1 the page is the contiguous
\* slice of that list from the offset on, of at most limit records.
C16_FilterSortPaginate ==
    [][lastOp' = "query" =>
        \A all \in {TokensSource(cache, tokensMap, now)} :
        \A seq \in {FilteredSorted(cache, tokensMap, now, response'.request.filter,
                                    response'.request.sort)} :
        LET req == response'.request
            res == response'.result
            matching == {i \in 1..Len(all) :
                            req.filter = Absent \/ PassesFilter(all[i], The(req.filter))}
            at(token) == CHOOSE i \in 1..Len(all) : all[i] = token
            offset == OffsetOf(CursorOf(req))
            limit == res.pagination.limit
        IN /\ res.pagination.total_count = Cardinality(matching)
           /\ Len(seq) = Cardinality(matching)
           /\ SeqToSet(seq) = {all[i] : i \in matching}
           /\ \A i, j \in 1..Len(seq) :
                 i < j => IF req.sort = Absent THEN at(seq[i]) < at(seq[j])
                          ELSE \/ Compare(seq[i], seq[j], The(req.sort)) < 0
                               \/ /\ Compare(seq[i], seq[j], The(req.sort)) = 0
                                  /\ at(seq[i]) < at(seq[j])
           /\ (~offset.nan /\ offset.n >= 0 /\ limit >= 1) =>
                 /\ res.data = SubSeq(seq, offset.n + 1, MathMin(offset.n + limit, Len(seq)))
                 /\ Len(res.data) <= limit]_vars

\* the second page of one record of a filtered and sorted list of two,
\* read from three records
C16_Witness ==
    /\ lastOp = "query"
    /\ response.request.filter # Absent
    /\ response.request.sort # Absent
    /\ CursorOf(response.request) = Base64Encode(<<"1">>)
    /\ response.result.pagination.limit = 1
    /\ response.result.pagination.total_count = 2
    /\ Len(tokensMap) = 3
    /\ Len(response.result.data) = 1
    /\ response.result.data[1].token_address = "Z"

\* C17: while the filtered and sorted list (of size N) does not change, a
\* client that starts without cursor with a limit L >= 1 and follows
\* next_cursor has, after p pages, visited the first min(p * L, N) elements
\* of the list, each once and in order; next_cursor is present exactly when
\* has_more is true, which is exactly when elements are left; the page
\* without next_cursor completes the list and is page ceil(N / L), or the
\* one empty page when N = 0.
C17_CursorRoundTrip ==
    (session.pages >= 1 /\ response.result.pagination.limit >= 1) =>
        LET N == Len(session.expected)
            L == response.result.pagination.limit
            page == response.result.pagination
        IN /\ session.visited = SubSeq(session.expected, 1, MathMin(session.pages * L, N))
           /\ page.has_more <=> page.next_cursor # NoCursor
           /\ page.has_more <=> session.pages * L < N
           /\ page.total_count = N
           /\ ~page.has_more =>
                 /\ session.visited = session.expected
                 /\ session.pages = IF N = 0 THEN 1 ELSE (N + L - 1) \div L

\* three records read in two pages of at most two
C17_Witness ==
    /\ session.pages = 2
    /\ response.result.pagination.limit = 2
    /\ ~response.result.pagination.has_more
    /\ Len(session.visited) = 3
    /\ Len(response.result.data) = 1

\* C18: a getTokens call with a cursor that does not decode to an integer
\* returns what the same call without cursor returns: the first page, its
\* has_more and its cursors.
C18_UndecodableCursorIsOffsetZero ==
    (/\ lastOp = "query"
     /\ CursorOf(response.request) # NoCursor
     /\ OffsetOf(CursorOf(response.request)).nan) =>
        response.result =
            GetTokens(cache, tokensMap, now, response.request.filter, response.request.sort,
                      Some([limit |-> The(response.request.pagination).limit,
                            cursor |-> NoCursor]))

\* C19: the page that GET /api/tokens returns holds at most 100 records and
\* at most as many as the effective limit (no record when that is below 1),
\* whatever the limit parameter parses to and whatever the cursor.
C19_PageWithinLimit ==
    lastOp = "query" =>
        /\ Len(response.result.data) <= MaxPageSize
        /\ Len(response.result.data) <= MathMax(response.result.pagination.limit, 0)

\* the addresses of a list of records, in order
AddressesOf(tokens) == [i \in 1..Len(tokens) |-> tokens[i].token_address]

\* xs without the elements outside keep
Restrict(xs, keep) == SelectSeq(xs, LAMBDA x : x \in keep)

\* C20: a client that follows next_cursor page by page, while refreshes only
\* add records of new addresses to the set (the records of its first result
\* keep their relative order), has seen no address twice, and once it has
\* the page without next_cursor it has seen every address that was in the
\* result when it fetched the first page.
C20_PagingConsistentUnderInserts ==
    \A old \in {AddressesOf(session.expected)} :
    \A seen \in {AddressesOf(session.visited)} :
    \A current \in {AddressesOf(FilteredSorted(cache, tokensMap, now, response.request.filter, response.request.sort))} :
        (/\ session.pages >= 1
         /\ response.result.pagination.limit >= 1
         /\ Restrict(current, Listed(old)) = old) =>
            /\ \A i, j \in 1..Len(seen) : seen[i] = seen[j] => i = j
            /\ response.result.pagination.next_cursor = NoCursor =>
                  Listed(old) \subseteq Listed(seen)

\* the filter of a request, NoFilter when none was passed
FilterOf(request) == IF request.filter = Absent THEN NoFilter ELSE The(request.filter)

\* the volume field of a time period, the generic fiat volume when it is zero
PeriodVolume(token, period) ==
    LET field == CASE period = "1h" -> token.volume_1hr
                   [] period = "7d" -> token.volume_7d
                   [] period \in {"24h", Undefined} -> token.volume_24hr
    IN IF field = 0 THEN token.volume_usd ELSE field

\* token satisfies every predicate that filter f supplies
Satisfies(token, f) ==
    /\ f.minVolume # Absent => PeriodVolume(token, f.timePeriod) >= The(f.minVolume)
    /\ f.maxVolume # Absent => PeriodVolume(token, f.timePeriod) <= The(f.maxVolume)
    /\ f.minMarketCap # Absent => token.market_cap_usd >= The(f.minMarketCap)
    /\ f.maxMarketCap # Absent => token.market_cap_usd <= The(f.maxMarketCap)
    /\ f.minLiquidity # Absent => token.liquidity_usd >= The(f.minLiquidity)
    /\ f.protocol # Undefined => ToLowerId(token.protocol) = ToLowerId(f.protocol)
    /\ f.chain # Undefined => ToLowerId(token.chain_id) = ToLowerId(f.chain)
    /\ f.search # <<>> =>
          \E text \in {token.token_name, token.token_ticker, <<token.token_address>>} :
              Includes(ToLowerCase(text), ToLowerCase(f.search))

\* C21: a getTokens call without sort whose time period is 1h, 24h, 7d or
\* not given returns exactly the records of the list read that satisfy
\* every supplied predicate, in the order of that list; the volume compared
\* with minVolume and maxVolume is the field of the period (24h when none is
\* given), or the generic fiat volume when that field is zero; with
\* minVolume greater than maxVolume nothing is returned.
C21_FilterIsSubsequence ==
    [][(/\ lastOp' = "query"
        /\ response'.request.sort = Absent
        /\ CursorOf(response'.request) = NoCursor
        /\ FilterOf(response'.request).timePeriod \in {Undefined, "1h", "24h", "7d"}) =>
        \A all \in {TokensSource(cache, tokensMap, now)} :
        \A f \in {FilterOf(response'.request)} :
            /\ response'.result.data = SelectSeq(all, LAMBDA token : Satisfies(token, f))
            /\ response'.result.pagination.total_count = Len(response'.result.data)
            /\ (/\ f.minVolume # Absent
                /\ f.maxVolume # Absent
                /\ The(f.minVolume) > The(f.maxVolume)) => response'.result.data = <<>>]_vars

\* of Y, X and Z, the 1h filter with minVolume 20000 keeps X and Z, whose 1h
\* volume is zero and whose fiat volume is not below the minimum
C21_Witness ==
    /\ lastOp = "query"
    /\ FilterOf(response.request).timePeriod = "1h"
    /\ FilterOf(response.request).minVolume = Some(20000)
    /\ FilterOf(response.request).maxVolume = Absent
    /\ Len(tokensMap) = 3
    /\ AddressesOf(response.result.data) = <<"X", "Z">>
    /\ \A i \in 1..2 : response.result.data[i].volume_1hr = 0

\* the sort of a request that has one
SortOf(request) == The(request.sort)

\* the price change field of a time period
PeriodChange(token, period) ==
    CASE period = "1h" -> token.price_1hr_change
      [] period = "7d" -> token.price_7d_change
      [] period \in {"24h", Undefined} -> token.price_24hr_change

\* the key that a sort orders by; change is the price change it reads
KeyOf(token, sort, change) ==
    CASE sort.field = "volume" -> PeriodVolume(token, sort.timePeriod)
      [] sort.field = "price_change" -> change
      [] sort.field = "market_cap" -> token.market_cap_usd
      [] sort.field = "liquidity" -> token.liquidity_usd
      [] sort.field = "transaction_count" -> token.transaction_count
      [] sort.field = "created_at" -> token.created_at

\* the price change of the period, the 24h change (the one that every
\* source reports) when it is zero
ChangeOrGeneric(token, period) ==
    IF PeriodChange(token, period) = 0 THEN token.price_24hr_change
    ELSE PeriodChange(token, period)

\* xs holds the elements of ys, each as often
IsPermutation(xs, ys) ==
    /\ Len(xs) = Len(ys)
    /\ \A x \in SeqToSet(xs) \cup SeqToSet(ys) :
          Cardinality({i \in 1..Len(xs) : xs[i] = x}) = Cardinality({i \in 1..Len(ys) : ys[i] = x})

\* the latest step was a getTokens call sorting by a field of TokenSort with
\* a time period of 1h, 24h, 7d or none
SortingCall ==
    /\ lastOp' = "query"
    /\ response'.request.sort # Absent
    /\ CursorOf(response'.request) = NoCursor
    /\ SortOf(response'.request).field \in SortFields \ {"age"}
    /\ SortOf(response'.request).timePeriod \in {Undefined, "1h", "24h", "7d"}

\* C22 as stated: the page of a sorted getTokens call is a permutation of
\* the filtered list read, non-decreasing (asc) or non-increasing (desc) in
\* the selected key, the list read staying as it was; the volume key and
\* the price-change key are the field of the time period, or the generic
\* field when the field of the period is zero.
C22_SortFallsBackOnPriceChange ==
    [][SortingCall =>
        \A all \in {TokensSource(cache, tokensMap, now)} :
        \A sort \in {SortOf(response'.request)} :
        LET data == response'.result.data
            key(token) == KeyOf(token, sort, ChangeOrGeneric(token, sort.timePeriod))
        IN /\ IsPermutation(data, SelectSeq(all, LAMBDA token : Satisfies(token, FilterOf(response'.request))))
           /\ TokensSource(cache', tokensMap', now') = all
           /\ \A i, j \in 1..Len(data) :
                 i < j => IF sort.direction = "desc" THEN key(data[i]) >= key(data[j])
                          ELSE key(data[i]) <= key(data[j])]_vars

\* C22: the same, the price-change key being the price change field of the
\* time period as it is, zero included; only the volume key falls back to
\* the generic fiat volume.
C22_SortIsOrderedPermutation ==
    [][SortingCall =>
        \A all \in {TokensSource(cache, tokensMap, now)} :
        \A sort \in {SortOf(response'.request)} :
        LET data == response'.result.data
            key(token) == KeyOf(token, sort, PeriodChange(token, sort.timePeriod))
        IN /\ IsPermutation(data, SelectSeq(all, LAMBDA token : Satisfies(token, FilterOf(response'.request))))
           /\ TokensSource(cache', tokensMap', now') = all
           /\ \A i, j \in 1..Len(data) :
                 i < j => IF sort.direction = "desc" THEN key(data[i]) >= key(data[j])
                          ELSE key(data[i]) <= key(data[j])]_vars

\* Z, Y and X sorted by the 1h price change, descending: X first, then Z
\* and Y, whose 1h change is zero, in the order read, although the 24h
\* change of Y is the larger one
C22_Witness ==
    /\ lastOp = "query"
    /\ response.request.sort # Absent
    /\ SortOf(response.request) = [field |-> "price_change", direction |-> "desc", timePeriod |-> "1h"]
    /\ AddressesOf(TokensSource(cache, tokensMap, now)) = <<"Z", "Y", "X">>
    /\ AddressesOf(response.result.data) = <<"X", "Z", "Y">>
    /\ response.result.data[2].price_1hr_change = 0
    /\ response.result.data[3].price_1hr_change = 0
    /\ response.result.data[2].price_24hr_change < response.result.data[3].price_24hr_change

\* the arguments that the route passes for the same query with time_period=24h
WithDayPeriod(request) ==
    [request EXCEPT !.filter = Some([FilterOf(request) EXCEPT !.timePeriod = "24h"]),
                    !.sort = IF request.sort = Absent THEN Absent
                             ELSE Some([SortOf(request) EXCEPT !.timePeriod = "24h"])]

\* the arguments of the same query with sort_by=volume
WithVolumeSort(request) == [request EXCEPT !.sort = Some([SortOf(request) EXCEPT !.field = "volume"])]

\* what getTokens returns for request where the call of this step started
Answer(request) == GetTokens(cache, tokensMap, now, request.filter, request.sort, request.pagination)

\* C23: a getTokens call whose time period is none of 1h, 24h, 7d returns
\* what the same call with period 24h returns, and a call whose sort field
\* is none of the fields of TokenSort returns what the same call sorted by
\* volume returns; both return a result.
C23_UnrecognizedValuesDefault ==
    [][lastOp' = "query" =>
        \A request \in {response'.request} :
            /\ FilterOf(request).timePeriod \notin {"1h", "24h", "7d"} =>
                  response'.result = Answer(WithDayPeriod(request))
            /\ (request.sort # Absent /\ SortOf(request).field \notin SortFields \ {"age"}) =>
                  response'.result = Answer(WithVolumeSort(request))]_vars

\* Y, X and Z sorted ascending by the field "age" with period "30d" come in
\* the order of their 24h volume: Y and Z, then X
C23_Witness ==
    /\ lastOp = "query"
    /\ response.request.sort # Absent
    /\ SortOf(response.request) = [field |-> "age", direction |-> "asc", timePeriod |-> "30d"]
    /\ FilterOf(response.request).timePeriod = "30d"
    /\ AddressesOf(TokensSource(cache, tokensMap, now)) = <<"Y", "X", "Z">>
    /\ AddressesOf(response.result.data) = <<"Y", "Z", "X">>

\* the cache holds an unexpired entry for address, or the map holds address
HoldsAddress(address) ==
    \/ /\ TokenKey(address) \in DOMAIN cache
       /\ now <= cache[TokenKey(address)].expiry
    \/ \E i \in 1..Len(tokensMap) : tokensMap[i].key = address

\* the records that the cache and the map hold for address
HeldFor(address) ==
    {cache[k].value : k \in {TokenKey(address)} \cap DOMAIN cache}
    \cup {tokensMap[i].value : i \in {j \in 1..Len(tokensMap) : tokensMap[j].key = address}}

\* this step is the start of a getTokenByAddress call
LookupCalled == calls' = calls + 1 /\ lastOp' = "lookup"

\* this step ends the by-address fetch of a getTokenByAddress call
LookupFetched == lookups' # lookups /\ lookups' \subseteq lookups

\* C24: a getTokenByAddress call for an address that the cache or the map
\* holds returns a record held for it at once and starts no fetch; a call
\* for an address that neither holds starts one by-address fetch against
\* DexScreener and returns when that fetch ends: with the transformed hit,
\* which mergeToken has put into the map by then, or, when the fetch failed
\* or found nothing, with null and the map as it was; DexScreener failing,
\* the call returns null.
C24_LookupFallsBackOnce ==
    [][/\ LookupCalled =>
            \A address \in {response'.request.lookup} :
                /\ tokensMap' = tokensMap
                /\ IF HoldsAddress(address)
                   THEN /\ response'.result.returned
                        /\ response'.result.token \in HeldFor(address)
                        /\ response'.result.fetches = 0
                        /\ lookups' = lookups
                   ELSE /\ ~response'.result.returned
                        /\ response'.result.fetches = 1
                        /\ lookups' = lookups \cup {address}
       /\ LookupFetched =>
            /\ response'.request.lookup \in lookups
            /\ lookups' = lookups \ {response'.request.lookup}
            /\ response'.result.returned
            /\ response'.result.fetches = 1
            /\ IF response'.result.token = NoToken
               THEN tokensMap' = tokensMap
               ELSE /\ DexSource \notin down
                    /\ newToken' = response'.result.token
                    /\ \E i \in 1..Len(tokensMap') :
                          /\ tokensMap'[i].key = response'.result.token.token_address
                          /\ \E k \in 1..Len(tokensMap'[i].value.sources) :
                                tokensMap'[i].value.sources[k] = DexSource
                    /\ cache'[TokenKey(response'.request.lookup)].value = response'.result.token
            /\ DexSource \in down => response'.result.token = NoToken]_vars

\* the engine did not hold X; the lookup of X returned the DexScreener
\* record after one fetch and X is in the map
C24_Witness ==
    /\ lastOp = "merge"
    /\ response.request = [lookup |-> "X"]
    /\ response.result.returned
    /\ response.result.fetches = 1
    /\ response.result.token.token_address = "X"
    /\ Len(tokensMap) = 2
    /\ tokensMap[2].key = "X"
    /\ tokensMap[2].value.sources = <<DexSource>>
    /\ lookups = {}

\* name or ticker of token contains query, letter case ignored
NameMatches(token, query) ==
    \E text \in {token.token_name, token.token_ticker} :
        Includes(ToLowerCase(text), ToLowerCase(query))

\* C25: a searchTokens call returns at most limit records (none for a limit
\* below one), each matching the query in name or ticker whatever the
\* letter case; it asks DexScreener and GeckoTerminal only when fewer than
\* limit records of the map match, and what it returns after asking them
\* are records of the map as the merges of their hits left it.
C25_SearchWithinLimit ==
    [][lastOp' = "search" =>
        \A query \in {response'.request.search} :
        \A limit \in {response'.request.limit} :
            /\ (calls' = calls + 1 /\ response'.result.upstream) =>
                  Cardinality({i \in 1..Len(tokensMap) : NameMatches(tokensMap[i].value, query)}) < limit
            /\ response'.result.returned =>
                  /\ Len(response'.result.tokens) <= MathMax(limit, 0)
                  /\ \A i \in 1..Len(response'.result.tokens) :
                        /\ NameMatches(response'.result.tokens[i], query)
                        /\ \E j \in 1..Len(tokensMap') :
                              tokensMap'[j].value = response'.result.tokens[i]]_vars

\* what a refill of bucket l leaves in it, in ticks
Available(l) == MathMin(Capacity * Interval, l.tokens + l.since)

\* the step is a call of acquire
AcquireCalled == limiter'.op \in {"granted", "refused"}

(* C26: the bucket holds between 0 and Capacity tokens; acquire returns     *)
(* true exactly when the refilled bucket holds a whole token, and then      *)
(* takes exactly one, and otherwise takes nothing; of the calls that follow *)
(* a full bucket with no time passing, exactly Capacity are granted.        *)
C26_AcquireTakesOneWholeUnit ==
    [][/\ limiter.tokens \in 0..(Capacity * Interval)
       /\ limiter'.tokens \in 0..(Capacity * Interval)
       /\ limiter'.op = "granted" =>
              /\ Available(limiter) >= Interval
              /\ limiter'.tokens = Available(limiter) - Interval
       /\ limiter'.op = "refused" =>
              /\ Available(limiter) < Interval
              /\ limiter'.tokens = Available(limiter)
       /\ (AcquireCalled /\ limiter.burst >= 0 /\ limiter.since = 0) =>
              (limiter'.op = "granted" <=> limiter.burst < Capacity)]_vars

\* Capacity tokens were taken from a full bucket and the next acquire was refused
C26_Witness == limiter.op = "refused" /\ limiter.burst = Capacity /\ limiter.since = 0

\* 2^f for f = 0 .. 5
Multiples == <<1, 2, 4, 8, 16, 32>>

\* caller c has set a timer in this step: waitForToken found no token
Suspends(c) == waiters'[c].timer > waiters[c].timer

(* C27: a waitForToken that finds no whole token sleeps for the interval of *)
(* one token times 2^min(failures, 5), failures being the reportFailure     *)
(* calls since the last reportSuccess: 8 intervals after three failures, at *)
(* most 32, and one interval when a reportSuccess came last.                *)
C27_BackoffDoublesUpToCap ==
    [][\A c \in Callers :
          Suspends(c) =>
              /\ Available(limiter) < Interval
              /\ waiters'[c].pc = "sleeping"
              /\ waiters'[c].timer = Interval * Multiples[MathMin(limiter.failures, 5) + 1]
              /\ limiter.failures = 3 => waiters'[c].timer = 8 * Interval
              /\ limiter.failures = 0 => waiters'[c].timer = Interval
              /\ waiters'[c].timer <= 32 * Interval]_vars

\* a caller went to sleep with more failures reported than the cap counts
C27_Witness ==
    /\ waiters["trending"].pc = "sleeping"
    /\ waiters["trending"].timer = 32 * Interval
    /\ limiter.failures = MaxFailures

(* C28: with time advancing and timers firing, every caller that           *)
(* waitForToken has put to sleep is granted a token in the end, whatever    *)
(* the other callers of the limiter do.                                     *)
C28_NoWaiterStarves ==
    \A c \in Callers : (waiters[c].pc = "sleeping") ~> (waiters[c].pc = "granted")

\* fn was invoked at most maxRetries + 1 times, onRetry once per failure that another attempt follows
RetryCounts ==
    /\ retry.attempts <= retry.maxRetries + 1
    /\ retry.pc = "calling" => retry.retried = retry.attempts - 1
    /\ retry.pc = "sleeping" => retry.retried = retry.attempts /\ retry.attempts <= retry.maxRetries
    /\ retry.pc = "returned" => retry.retried = retry.attempts - 1 /\ retry.result \in Results
    /\ retry.pc = "rejected" =>
           /\ retry.attempts = retry.maxRetries + 1
           /\ retry.retried = retry.attempts - 1
           /\ retry.thrown = ToError(retry.failing)

\* the call returns what fn resolved with in the same step, and fn is not invoked again
ReturnsAtOnce ==
    /\ retry.pc = "calling" /\ retry'.pc = "returned" => retry'.attempts = retry.attempts
    /\ retry.pc \in {"returned", "rejected"} => retry'.pc = "idle"

(* C30: withRetry invokes fn at most maxRetries + 1 times; it returns the   *)
(* result of the first attempt that succeeds and invokes fn no more; when   *)
(* every attempt fails it rejects with the error of the last one; onRetry   *)
(* has then been called attempts - 1 times; and when fn settles and timers  *)
(* fire, every call ends in one of the two ways.                            *)
C30_RetryIsBoundedAndEnds ==
    /\ []RetryCounts
    /\ [][ReturnsAtOnce]_vars
    /\ (retry.pc = "calling") ~> (retry.pc \in {"returned", "rejected"})

\* all maxRetries + 1 attempts failed, the last with a value that was no Error
C30_Witness ==
    /\ retry.pc = "rejected"
    /\ retry.maxRetries = MaxRetries
    /\ retry.attempts = MaxRetries + 1
    /\ retry.retried = MaxRetries
    /\ ~retry.failing.error

(* C29: an adapter has sent at most as many requests as its limiter has     *)
(* granted tokens.                                                          *)
C29_RequestsWithinGrants == retry.sent <= retry.granted

-----------------------------------------------------------------------------
(* Properties of MemoryCache *)

\* the step is a call of get
GetCalled == history'.gets = history.gets + 1

\* what a get of key has to return at time t after the calls recorded in h
Expected(h, key, t) ==
    IF key \in DOMAIN h.written /\ t <= h.written[key].at + h.written[key].ttl
    THEN Value(h.written[key].value)
    ELSE NullValue

(* C31: a get returns the value of the latest set of its key when no delete *)
(* or flush followed that set and at most ttl seconds have passed since it, *)
(* and null otherwise: after the expiry, and for a key never set, deleted   *)
(* or flushed.                                                              *)
C31_GetReturnsLatestUnexpiredSet ==
    [][GetCalled => response'.result = Expected(history, response'.request.key, now)]_vars

\* a value with an undefined property was read back at the last moment of the scenario
C31_Witness ==
    /\ lastOp = "get"
    /\ response.result.found
    /\ response.result.value.value = Undefined
    /\ now = MaxCacheTime

\* the step is a call of flush
FlushCalled == cacheStats' = NoHits /\ history' = NoHistory /\ cache' = [k \in {} |-> 0]

(* C32: hits + misses is the number of get calls since the cache was made   *)
(* or flushed; a get that returned a stored unexpired entry adds one hit    *)
(* and every other get one miss; getStats reports hits / (hits + misses) as *)
(* hitRate, 0 when no get was made; no call but get and flush changes the   *)
(* counters.                                                                *)
C32_CountersFollowGets ==
    [][/\ cacheStats.hits + cacheStats.misses = history.gets
       /\ cacheStats'.hits + cacheStats'.misses = history'.gets
       /\ GetCalled =>
              IF response'.result.found
              THEN cacheStats' = [cacheStats EXCEPT !.hits = @ + 1]
              ELSE cacheStats' = [cacheStats EXCEPT !.misses = @ + 1]
       /\ ~GetCalled => cacheStats' = cacheStats \/ FlushCalled
       /\ lastOp' = "getStats" =>
              /\ response'.result.hits = cacheStats.hits
              /\ response'.result.misses = cacheStats.misses
              /\ IF history.gets = 0
                 THEN response'.result.hitRate.num = 0
                 ELSE response'.result.hitRate.num * history.gets
                          = cacheStats.hits * response'.result.hitRate.den]_vars

\* getStats after one hit and one miss
C32_Witness ==
    /\ lastOp = "getStats"
    /\ response.result.hits = 1
    /\ response.result.misses = 1
    /\ response.result.hitRate = [num |-> 1, den |-> 2]

\* the step is a call of a RedisCache operation
RedisCalled == lastOp' = "redis"

(* C33: no cache operation passes a failure of the backend on to its        *)
(* caller: the call returns, a get that failed returns null, and a set or   *)
(* delete that failed leaves the stored entries as they were.               *)
C33_BackendFailuresAreSwallowed ==
    [][RedisCalled =>
          /\ ~response'.result.threw
          /\ response'.request.fails /\ response'.request.op = "get" =>
                 ~response'.result.found
          /\ response'.request.fails /\ response'.request.op \in {"set", "delete"} =>
                 cache' = cache]_vars

-----------------------------------------------------------------------------
(* Properties of the refresh *)

(* C34: a record that cannot be transformed is skipped and nothing else:    *)
(* the adapter whose payload held it is not counted as failed, so that the  *)
(* adapters counted as failed are those whose client failed.                *)
C34_OnlyTheMalformedRecordIsSkipped ==
    [][\A src \in rejected' : FetchRejects(src, down)]_vars

(* C35: while the clock does not go back, no step lowers the last_updated   *)
(* of a record of the map: an insert stores the stamp the adapter took, at  *)
(* most the time of the call, and a merge into a stored record sets it to   *)
(* the time of the merge, at or after the stamp it replaces.                *)
C35_LastUpdatedNeverGoesBack ==
    /\ [](\A i \in 1..Len(tokensMap) : tokensMap[i].value.last_updated <= now)
    /\ [][/\ now' >= now
          /\ \A address \in MapKeys(tokensMap) :
                 /\ MapHas(tokensMap', address)
                 /\ MapGet(tokensMap', address).last_updated
                        >= MapGet(tokensMap, address).last_updated
          /\ Merging => /\ Merged.last_updated = now
                        /\ Merged.last_updated >= Existing.last_updated]_vars

\* a merge moved the stamp of a stored record forward
C35_Witness ==
    /\ MergedIntoExisting
    /\ Stored.last_updated = now
    /\ Stored.last_updated > 0
    /\ Len(Stored.sources) > 1

-----------------------------------------------------------------------------
(* Properties of WebSocketServer *)

\* the events that carry updates
Updates == {"price_update", "volume_spike", "batch_update"}

(* C36: a client that sent unsubscribe and has not subscribed since is sent *)
(* no price_update, volume_spike or batch_update message.                   *)
C36_UnsubscribedReceivesNoUpdates ==
    [][\A m \in sockets'.delivered :
          m.event \in Updates => m.to \notin sockets.silenced]_vars

(* C37: every token of a batch_update message sent to a client is on the    *)
(* client's whitelist, when it has one, and passes the client's filters as  *)
(* applyFilters evaluates them; no batch_update message is empty.           *)
C37_BatchRespectsClientFilters ==
    [][\A m \in sockets'.delivered :
          m.event = "batch_update" =>
              LET subscription == sockets.clients[m.to]
              IN /\ m.tokens # <<>>
                 /\ \A k \in 1..Len(m.tokens) :
                        /\ ShouldReceiveUpdate(subscription, m.tokens[k].token_address)
                        /\ subscription.filters # Absent =>
                               PassesFilter(m.tokens[k], The(subscription.filters))]_vars

-----------------------------------------------------------------------------
(* Properties of the previous-value maps *)

(* C38: previousPrices and previousVolumes hold the same addresses, each of *)
(* them has a record in the map, and the values held are that record's      *)
(* price_usd and volume_24hr; so a merge compares against the price and     *)
(* volume of the record it replaces, and the handler calls it makes are     *)
(* those of a comparison against that record.                               *)
C38_PreviousValuesAreTheRecords ==
    /\ [](/\ DOMAIN previousPrices = DOMAIN previousVolumes
          /\ \A address \in DOMAIN previousPrices :
                 /\ MapHas(tokensMap, address)
                 /\ previousPrices[address] = MapGet(tokensMap, address).price_usd
                 /\ previousVolumes[address] = MapGet(tokensMap, address).volume_24hr)
    /\ [][Merging =>
             /\ PrevObserved(previousPrices, newToken'.token_address, Existing.price_usd)
                    = Existing.price_usd
             /\ PrevObserved(previousVolumes, newToken'.token_address, Existing.volume_24hr)
                    = Existing.volume_24hr
             /\ emitted' = ChangeEvents(handlers, Merged, Existing.price_usd,
                                        Existing.volume_24hr)]_vars

\* GeckoTerminal's record merged into one that DexScreener's had been merged
\* into, so that the maps held the address, with a handler called
C38_Witness ==
    /\ MergedIntoExisting
    /\ emitted # <<>>
    /\ newToken.sources = <<GeckoSource>>
    /\ SeqToSet(Stored.sources) = {GeckoSource, DexSource}
    /\ previousPrices[newToken.token_address] = Stored.price_usd

-----------------------------------------------------------------------------
(* Properties of UpdateScheduler *)

\* this step is a call of start or stop that changed the scheduler: the
\* callbacks change nothing of it but awaiting
SchedulerCalled(op) ==
    /\ scheduler' # scheduler
    /\ scheduler'.awaiting = scheduler.awaiting
    /\ scheduler'.op = op

(* C39: getStatus reports running exactly when all three job fields hold a  *)
(* task and not running exactly when none does; a start on a running        *)
(* scheduler and a stop on a stopped one leave fields and tasks as they     *)
(* were; and no job ever has more than one task scheduled.                  *)
C39_RunningIffAllJobsScheduled ==
    /\ [](LET status == GetStatus(scheduler)
          IN /\ status.running <=> \A k \in 1..3 : status.jobs[k].running
             /\ ~status.running <=> \A k \in 1..3 : ~status.jobs[k].running
             /\ \A name \in JobNames :
                    /\ scheduler.tasks[name] <= 1
                    /\ scheduler.jobs[name] <=> scheduler.tasks[name] = 1)
    /\ [][/\ scheduler'.returnedEarly =>
                /\ scheduler'.isRunning = scheduler.isRunning
                /\ scheduler'.jobs = scheduler.jobs
                /\ scheduler'.tasks = scheduler.tasks
          /\ SchedulerCalled("start") =>
                /\ scheduler'.returnedEarly <=> scheduler.isRunning
                /\ scheduler'.isRunning
          /\ SchedulerCalled("stop") =>
                /\ scheduler'.returnedEarly <=> ~scheduler.isRunning
                /\ ~scheduler'.isRunning]_vars

\* a start on a running scheduler
C39_Witness ==
    /\ scheduler.op = "start"
    /\ scheduler.returnedEarly
    /\ scheduler.isRunning
    /\ \A name \in JobNames : scheduler.tasks[name] = 1

-----------------------------------------------------------------------------
(* Properties of the lookup fallback *)

(* C40: a getTokenByAddress call that returns a record after its fallback   *)
(* fetch returns the record the map holds for the requested address at that *)
(* moment, and stores that record under token:<address>.                    *)
C40_FallbackReturnsCanonicalRecord ==
    [][(LookupFetched /\ response'.result.token # NoToken) =>
          \A address \in {response'.request.lookup} :
              /\ MapHas(tokensMap', address)
              /\ response'.result.token = MapGet(tokensMap', address)
              /\ cache'[TokenKey(address)].value = MapGet(tokensMap', address)]_vars

====
